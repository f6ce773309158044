---------------------------- MODULE EntryMigration ----------------------------
(***************************************************************************)
(* apply-migration-entry: the one-time moves that bring the files of an    *)
(* older project to the shipped schema.  An entry is planned from the      *)
(* files as they are (a refusal or a pending judgement leaves them alone), *)
(* then applied write by write and deletion by deletion, with a provenance *)
(* record after each, and planned again to see that nothing is left.  It   *)
(* may die anywhere and is then run again; meanwhile people edit the files *)
(* and migrate-config advances the project's marker.                       *)
(*                                                                         *)
(*   v0.2.0   ENGINEERING.md becomes STANDARDS.md; retired field anchors   *)
(*   v0.3.0   retired field anchors, whose value may need a mapping        *)
(*   v0.6.0   CONVENTIONS.md retires, once reviewed if it says anything    *)
(*   v0.10.0  descriptive artifact names retire, with every mention        *)
(*                                                                         *)
(* A file is a version, told apart from every other, and what it mentions  *)
(* in retired form.  The wrappers of v0.3.0 follow the same review as      *)
(* CONVENTIONS.md, only that they stay.                                    *)
(***************************************************************************)
EXTENDS Naturals, FiniteSets

CONSTANTS Artifacts,   \* artifacts that have a retired name
          Entries,     \* the entries looked at
          Patient,     \* the manager advances the marker after complete only
          Nothing,
          MaxEdits, MaxCrashes, MaxFaults   \* bounds

VARIABLES entry,     \* the entry that is to be applied
          file,      \* path -> text, or Nothing
          archive,   \* the name of the plan archive's directory: a form
          latest,    \* path -> its latest provenance record, or Nothing
          receipts,  \* texts shown as pending -> has a ruling been recorded since?
          behind,    \* the project's marker is below the entry
          job,       \* the application in progress, or Nothing
          told,      \* what the last application reported
          edits, crashes, faults

vars == <<entry, file, archive, latest, receipts, behind, job, told, edits, crashes, faults>>

Doc == "doc"        \* a file whose name does not change: a task, archive/INDEX.md
Archive == "archive"
Forms == {"retired", "canonical"}
Names == Artifacts \cup {Doc}
Paths == Names \X Forms

\* What a text can mention in retired form under each entry.
Mentions == [e \in {"v0.2.0", "v0.3.0", "v0.6.0", "v0.10.0"} |->
               CASE e = "v0.2.0" -> {"gate"}
                 [] e = "v0.3.0" -> {"subpath n/a", "subpath"}
                 [] e = "v0.6.0" -> {"substance"}
                 [] OTHER -> Artifacts \cup {Archive}]
Texts == [v : Nat, old : SUBSET UNION {Mentions[e] : e \in DOMAIN Mentions}]

\* The absence of a file is no text.
ASSUME EntryAssumption == Entries \subseteq DOMAIN Mentions /\ Nothing \notin Texts

Deleted == [v |-> 0, old |-> {"deleted"}]  \* the tombstone's mark

-----------------------------------------------------------------------------
(* The plan of an entry.                                                   *)

Write(p, from, to) ==
  [path |-> p, before |-> from, after |-> to, by |-> IF from = Nothing THEN "name" ELSE "reference"]
Delete(p) == [path |-> p, text |-> file[p]]
Without(text, forms) == [text EXCEPT !.old = @ \ forms]

Old(a) == <<a, "retired">>
New(a) == <<a, "canonical">>
Present == {p \in Paths : file[p] # Nothing}
\* One file is renamed, or retired, by the entries before v0.10.0.
Concerned == CASE entry = "v0.10.0" -> Artifacts
               [] entry = "v0.3.0" -> {}
               [] OTHER -> {CHOOSE a \in Artifacts : TRUE}
Renamed == {a \in Artifacts : file[Old(a)] # Nothing}

\* The latest record of a path proves that this entry created it as it is; a
\* rewritten mention is another action.
Evidenced(p) == latest[p] = [text |-> file[p], by |-> "name"]

NothingToDo == [kind |-> "plan", writes |-> {}, deletes |-> {}, dirs |-> FALSE]
Blocked == [NothingToDo EXCEPT !.kind = "refused"]
Pending == [NothingToDo EXCEPT !.kind = "pending"]

Anchors(forms) ==
  {Write(p, file[p], Without(file[p], forms)) :
     p \in {q \in Present : file[q].old \cap forms # {}}}

Collision(a) ==
  /\ file[Old(a)] # Nothing /\ file[New(a)] # Nothing
  /\ \/ ~Evidenced(New(a))
     \/ entry = "v0.2.0" /\ file[New(a)] # file[Old(a)]

Copies(forms) ==
  {Write(New(a), Nothing, Without(file[Old(a)], forms)) : a \in {b \in Renamed : file[New(b)] = Nothing}}

PlanStandards ==
  IF \E a \in Concerned : Collision(a) \/ (file[Old(a)] = Nothing /\ file[New(a)] = Nothing)
  THEN Blocked
  ELSE [NothingToDo EXCEPT !.writes = Copies({}) \cup Anchors({"gate"}),
                           !.deletes = {Delete(Old(a)) : a \in Renamed}]

PlanSubpaths ==
  IF \E p \in Present : file[p].old = Mentions["v0.3.0"] THEN Blocked
  ELSE IF \E p \in Present : "subpath" \in file[p].old THEN Pending
  ELSE [NothingToDo EXCEPT !.writes = Anchors({"subpath n/a"})]

PlanConventions ==
  IF Renamed = {} THEN NothingToDo
  ELSE IF \E a \in Renamed : LET t == file[Old(a)]
                             IN  "substance" \in t.old /\ <<t, TRUE>> \notin receipts
  THEN Pending
  ELSE [NothingToDo EXCEPT !.deletes = {Delete(Old(a)) : a \in Renamed}]

\* What the names still there are rewritten to, in every live file.
Replaced == Renamed \cup (IF archive = "retired" THEN {Archive} ELSE {})

\* Mutant: an artifact whose canonical file is there counts as done with.
PlanNamesForgetful ==
  IF \E a \in Artifacts : Collision(a) THEN Blocked
  ELSE LET left == {a \in Replaced : a = Archive \/ file[New(a)] = Nothing}
       IN [NothingToDo EXCEPT
             !.writes = Copies(left)
                        \cup {w \in Anchors(left) : w.path \notin {Old(a) : a \in Renamed}},
             !.deletes = {Delete(Old(a)) : a \in Renamed},
             !.dirs = archive = "retired"]

PlanNames ==
  IF \E a \in Artifacts : Collision(a) THEN Blocked
  ELSE [NothingToDo EXCEPT
          !.writes = Copies(Replaced)
                     \cup {w \in Anchors(Replaced) : w.path \notin {Old(a) : a \in Renamed}},
          !.deletes = {Delete(Old(a)) : a \in Renamed},
          !.dirs = archive = "retired"]

\* A marker at or beyond the entry ends it, but for the repair of names.
PlanEntry ==
  IF ~behind /\ entry # "v0.10.0" THEN NothingToDo
  ELSE CASE entry = "v0.2.0" -> PlanStandards
         [] entry = "v0.3.0" -> PlanSubpaths
         [] entry = "v0.6.0" -> PlanConventions
         [] entry = "v0.10.0" -> PlanNames

-----------------------------------------------------------------------------
(* One application.                                                        *)

Kept(e) == e \in {"v0.3.0", "v0.6.0"}     \* nothing gets another name

\* Names are mentioned in retired form while they are retired.
Init ==
  /\ entry \in Entries /\ behind = TRUE /\ job = Nothing /\ told = "none"
  /\ latest = [p \in Paths |-> Nothing] /\ receipts = {}
  /\ edits = 0 /\ crashes = 0 /\ faults = 0
  /\ archive \in IF entry = "v0.10.0" THEN Forms ELSE {"canonical"}
  /\ \E retired \in SUBSET Artifacts :
       /\ retired \subseteq Concerned /\ (entry # "v0.10.0" => retired = Concerned)
       /\ LET said == IF entry = "v0.10.0"
                      THEN retired \cup (IF archive = "retired" THEN {Archive} ELSE {})
                      ELSE Mentions[entry]
          IN file \in [Paths -> {Nothing} \cup [v : {0}, old : SUBSET said]]
       /\ \A a \in Artifacts : (file[Old(a)] # Nothing) <=> (a \in retired)
       /\ \A a \in Artifacts : (file[New(a)] # Nothing) <=> (a \in Concerned \ retired)
       /\ file[Old(Doc)] = Nothing /\ file[New(Doc)] # Nothing
       /\ entry = "v0.6.0" => file[New(Doc)].old = {}
       /\ entry = "v0.2.0" => \A p \in Present : p[1] # Doc => file[p].old = {}

Report(answer) == told' = answer /\ job' = Nothing

\* A pending judgement leaves a receipt of the text, the entry v0.3.0's
\* mapping none; a receipt that cannot be written blocks.
Begin ==
  /\ job = Nothing
  /\ \/ PlanEntry.kind = "refused" /\ Report("blocked") /\ UNCHANGED receipts
     \/ /\ PlanEntry.kind = "pending" /\ Report("pending")
        /\ receipts' = IF entry = "v0.3.0" THEN receipts
                       ELSE receipts \cup {<<file[Old(a)], FALSE>> : a \in Renamed}
     \/ /\ PlanEntry.kind = "plan"
        /\ job' = [writes |-> PlanEntry.writes, deletes |-> PlanEntry.deletes,
                   dirs |-> PlanEntry.dirs, landed |-> Nothing]
        /\ told' = "none" /\ UNCHANGED receipts
  /\ UNCHANGED <<entry, file, archive, latest, behind, edits, crashes, faults>>

\* One planned write, if its target is still what the plan read.
Land ==
  /\ job # Nothing /\ job.landed = Nothing
  /\ \E w \in job.writes :
       IF file[w.path] = w.before
       THEN /\ file' = [file EXCEPT ![w.path] = w.after]
            /\ job' = [job EXCEPT !.writes = @ \ {w},
                                  !.landed = [path |-> w.path, text |-> w.after, by |-> w.by]]
            /\ UNCHANGED told
       ELSE Report("blocked") /\ UNCHANGED file
  /\ UNCHANGED <<entry, archive, latest, receipts, behind, edits, crashes, faults>>

\* A source goes when every write has landed, if it is what the plan read.
Retire ==
  /\ job # Nothing /\ job.landed = Nothing /\ job.writes = {}
  /\ \E d \in job.deletes :
       IF file[d.path] = d.text
       THEN /\ file' = [file EXCEPT ![d.path] = Nothing]
            /\ job' = [job EXCEPT !.deletes = @ \ {d},
                                  !.landed = [path |-> d.path, text |-> Deleted, by |-> "name"]]
            /\ UNCHANGED told
       ELSE Report("blocked") /\ UNCHANGED file
  /\ UNCHANGED <<entry, archive, latest, receipts, behind, edits, crashes, faults>>

\* The record of what has just landed; a failed append ends the application.
Record ==
  /\ job # Nothing /\ job.landed # Nothing
  /\ \/ /\ latest' = [latest EXCEPT ![job.landed.path] =
                         [text |-> job.landed.text, by |-> job.landed.by]]
        /\ job' = [job EXCEPT !.landed = Nothing]
        /\ UNCHANGED <<told, faults>>
     \/ /\ faults < MaxFaults /\ faults' = faults + 1
        /\ Report("blocked") /\ UNCHANGED latest
  /\ UNCHANGED <<entry, file, archive, receipts, behind, edits, crashes>>

RenameArchive ==
  /\ job # Nothing /\ job.landed = Nothing /\ job.writes = {} /\ job.deletes = {} /\ job.dirs
  /\ archive' = "canonical" /\ job' = [job EXCEPT !.dirs = FALSE]
  /\ UNCHANGED <<entry, file, latest, receipts, behind, told, edits, crashes, faults>>

\* The entry is planned again; a directory left is not looked for.
Verify ==
  /\ job # Nothing /\ job.landed = Nothing /\ job.writes = {} /\ job.deletes = {} /\ ~job.dirs
  /\ Report(IF PlanEntry.kind = "plan" /\ PlanEntry.writes = {} /\ PlanEntry.deletes = {}
            THEN "complete" ELSE "blocked")
  /\ UNCHANGED <<entry, file, archive, latest, receipts, behind, edits, crashes, faults>>

Crash ==
  /\ job # Nothing /\ crashes < MaxCrashes
  /\ crashes' = crashes + 1 /\ job' = Nothing
  /\ UNCHANGED <<entry, file, archive, latest, receipts, behind, told, edits, faults>>

-----------------------------------------------------------------------------
(* What goes on around it.                                                 *)

\* By hand, or under a canonical name by a mediated writer, which records it.
Edit ==
  /\ edits < MaxEdits /\ edits' = edits + 1
  /\ \E p \in Present :
       /\ file' = [file EXCEPT ![p].v = edits + 1]
       /\ \/ UNCHANGED latest
          \/ /\ p[2] = "canonical"
             /\ latest' = [latest EXCEPT ![p] = [text |-> file'[p], by |-> "writer"]]
  /\ UNCHANGED <<entry, archive, receipts, behind, job, told, crashes, faults>>

\* The manager maps what v0.3.0 cannot, through the writer.
MapSubpath ==
  /\ \E p \in Present :
       /\ "subpath" \in file[p].old
       /\ file' = [file EXCEPT ![p] = Without(file[p], {"subpath"})]
       /\ latest' = [latest EXCEPT ![p] = [text |-> file'[p], by |-> "writer"]]
  /\ UNCHANGED <<entry, archive, receipts, behind, job, told, edits, crashes, faults>>

\* Any mediated decision or standards write rules on every receipt before it.
Decide ==
  /\ \E r \in receipts : ~r[2]
  /\ receipts' = {<<r[1], TRUE>> : r \in receipts}
  /\ UNCHANGED <<entry, file, archive, latest, behind, job, told, edits, crashes, faults>>

\* migrate-config --apply asks for the names, and for no other entry.
AdvanceMarker ==
  /\ behind /\ behind' = FALSE
  /\ Patient => told = "complete" /\ job = Nothing
  /\ entry = "v0.10.0" => /\ PlanNames.kind = "plan" /\ PlanNames.writes = {}
                          /\ PlanNames.deletes = {} /\ ~PlanNames.dirs
  /\ UNCHANGED <<entry, file, archive, latest, receipts, job, told, edits, crashes, faults>>

Next == \/ Begin \/ Land \/ Retire \/ Record \/ RenameArchive \/ Verify \/ Crash
        \/ Edit \/ MapSubpath \/ Decide \/ AdvanceMarker

-----------------------------------------------------------------------------
(* Properties.                                                             *)

\* When apply-migration-entry reports complete, nothing is left of the entry,
\* however often it was interrupted and resumed: no retired name, no mention
\* of one in any live file, and each renamed artifact under its new name.
CompleteIsDone ==
  [][told # "complete" /\ told' = "complete" =>
       /\ Renamed = {} /\ (entry = "v0.10.0" => archive = "canonical")
       /\ \A p \in Present : file[p].old = {}
       /\ ~Kept(entry) => \A a \in Concerned : file[New(a)] # Nothing]_vars

\* What was last written under a retired name is carried to the new one
\* before it is deleted (a collision "fails closed", migrations.py).
EditSurvives ==
  [][\A a \in Artifacts :
       ~Kept(entry) /\ file[Old(a)] # Nothing /\ file'[Old(a)] = Nothing
         => file[New(a)].v >= file[Old(a)].v]_vars

=============================================================================
