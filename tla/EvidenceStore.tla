---------------------------- MODULE EvidenceStore ----------------------------
(***************************************************************************)
(* Request evidence (cli/intake_adapter.py, select_project.py,              *)
(* evidence_resolver.py, revoke_evidence.py).  Host hooks record what the   *)
(* operator said and what was proposed, in files of the session; commands   *)
(* bind a session's receipt ordinals to a project, bind the confirming      *)
(* reply at a lock, and revoke.  No file has a lock: every operation reads, *)
(* computes and writes whole files, and a process may die between writes.   *)
(*                                                                         *)
(* `overlap', chosen once, says whether operations of one machine may run   *)
(* interleaved (a queued prompt, an asynchronous hook, a second session) or *)
(* the host finishes each before the next.  Adjacent reads are one step.    *)
(* Texts are classes: a bare assent, a statement, and one larger than the   *)
(* byte bound of the buffer.  Quoting, units and decision scopes are left   *)
(* out: a turn is evidence here when any reference to it would be.          *)
(***************************************************************************)
EXTENDS Integers, Sequences, FiniteSets, SequencesExt, FiniteSetsExt

CONSTANTS Session, Project, Proc,
          BufferMax,    \* PRESELECTION_MAX_EVENTS
          MaxEvents,    \* bound on the hook events the host sends
          MaxRacing,    \* the same when operations overlap
          MaxCommands,  \* bound on the commands of operator and PM
          MaxOps,       \* bound on both together
          StopText,     \* what the assistant may say
          MaxCrashes,   \* bound on processes that die half-way
          NoSession, NoProject

PromptText == {"words", "yes", "huge"}

VARIABLES
    ses,      \* session.json of each host session
    handles,  \* the handles that have an index file
    log,      \* its events.jsonl
    pairs,    \* its pairs.jsonl
    pb,       \* requests/bindings.json of each project
    revoked,  \* the identities in its requests/revocations.json
    op,       \* what each process is doing
    overlap,
    overtaken, \* an operation has written over what it had not read
    nh, turn, \* handles given out; the host's current turn in each session
    sent, asked, crashes

files == <<ses, handles, log, pairs, pb, revoked>>
vars == <<files, op, overlap, overtaken, nh, turn, sent, asked, crashes>>

Event   == [ord : Nat, ev : {"start", "prompt", "stop", "interrupt", "end", "evicted"},
            turn : Nat, text : PromptText \cup StopText \cup {""}]
\* A binding: `conf' is the reply of the bound confirmation exchange and the
\* proposal it answers.
Ongoing == -1
NoConf  == [reply |-> 0, prop |-> 0]
Binding == [h : Nat, from : Nat, to : Int, q : Project, conf : [reply : Nat, prop : Nat]]
Record  == [h : Nat, announce : BOOLEAN, binds : Seq(Binding), ended : BOOLEAN]
Idle == [at |-> "idle"]

Bound(r) == r.binds # << >>
Top(evs) == Max({0} \cup {evs[i].ord : i \in 1..Len(evs)})

\* Where the prompts and the Stops of a log are.
Prompts(evs) == {i \in DOMAIN evs : evs[i].ev = "prompt"}
Stops(evs)   == {i \in DOMAIN evs : evs[i].ev = "stop"}

\* A marker is only ever the first line.
Kept(evs) == IF evs # << >> /\ Head(evs).ev = "evicted" THEN Tail(evs) ELSE evs

-----------------------------------------------------------------------------
\* What the files say: the resolver.

\* _receipted: the session record carries the same binding.
Receipted(b) ==
    \E s \in Session :
        /\ ses[s] # NoSession /\ ses[s].h = b.h
        /\ \E own \in Range(ses[s].binds) :
              own.from = b.from /\ own.to = b.to /\ own.q = b.q

SessionOf(b) == CHOOSE s \in Session : ses[s] # NoSession /\ ses[s].h = b.h

\* The places of a project's receipted bindings.
Bindings(q) == {i \in DOMAIN pb[q] : Receipted(pb[q][i])}

\* pair_states, for one reply: a late record that disagrees marks it for good.
Frozen(s, h, ord) == {i \in 1..Len(pairs[s]) :
    pairs[s][i].kind = "pair" /\ pairs[s][i].h = h /\ pairs[s][i].reply = ord}
Inconsistent(s, h, ord) == Frozen(s, h, ord) # {} /\ \E i \in 1..Len(pairs[s]) :
    /\ i > Max(Frozen(s, h, ord)) /\ pairs[s][i].inc
    /\ pairs[s][i].kind = "late" /\ pairs[s][i].h = h /\ pairs[s][i].reply = ord

\* The proposal of a captured turn, 0 when it is unpaired or no longer readable.
Proposal(s, h, ord) ==
    IF Frozen(s, h, ord) = {} THEN 0
    ELSE LET o == pairs[s][Max(Frozen(s, h, ord))].prop
         IN  IF \E e \in Range(log[s]) : e.ev = "stop" /\ e.ord = o THEN o ELSE 0

\* load_candidates: the operator turns inside a receipted binding.
TurnsOf(b) ==
    LET s == SessionOf(b)
    IN  {[h |-> b.h, ord |-> e.ord, low |-> e.text = "yes",
          prop |-> Proposal(s, b.h, e.ord), inc |-> Inconsistent(s, b.h, e.ord)] :
         e \in {x \in Range(log[s]) : /\ x.ev = "prompt" /\ x.ord >= b.from
                                      /\ b.to = Ongoing \/ x.ord <= b.to}}
Turns(q) == UNION {TurnsOf(pb[q][i]) : i \in Bindings(q)}
Id(t) == <<t.h, t.ord>>

\* _check_pair_usable
Usable(t) == ~t.inc /\ (t.low => t.prop # 0)

\* confirmations: the bindings whose exchange is not revoked.
Active(q) == {i \in Bindings(q) :
    LET b == pb[q][i] IN b.conf # NoConf /\ <<b.h, b.conf.reply>> \notin revoked[q]}

Corroborated(q) == \A i \in Bindings(q) :
    LET b == pb[q][i]
    IN  b.conf = NoConf \/ \E t \in TurnsOf(b) : t.ord = b.conf.reply /\ t.prop = b.conf.prop

\* _choose_binding, by the handle: its last open binding, else its last one.
\* Without a handle the choice is one of these or a refusal.
Chosen(q, h) ==
    LET own  == {i \in Bindings(q) : pb[q][i].h = h}
        open == {i \in own : pb[q][i].to = Ongoing}
    IN  pb[q][Max(IF open # {} THEN open ELSE own)]

Init ==
    /\ ses = [s \in Session |-> NoSession] /\ handles = {}
    /\ log = [s \in Session |-> << >>] /\ pairs = [s \in Session |-> << >>]
    /\ pb = [q \in Project |-> << >>] /\ revoked = [q \in Project |-> {}]
    /\ op = [p \in Proc |-> Idle] /\ overlap \in BOOLEAN /\ overtaken = FALSE
    /\ nh = 0 /\ turn = [s \in Session |-> 0]
    /\ sent = 0 /\ asked = 0 /\ crashes = 0

\* The bounds on hook events and commands together.
Allowed == sent + asked < (IF overlap THEN MaxRacing + 2 ELSE MaxOps)

Free(p) == op[p] = Idle /\ (overlap \/ \A x \in Proc : op[x] = Idle)
Goto(p, at) == op' = [op EXCEPT ![p].at = at]
Done(p) == op' = [op EXCEPT ![p] = Idle]

\* The session an operation works on is still the one it loaded.
Present(o) == ses[o.s] # NoSession /\ ses[o.s].h = o.rec.h

-----------------------------------------------------------------------------
\* The hook: handle_event.

\* What the host may report next in a session; a Stop may come a turn late.
Reports(s) ==
    {[ev |-> "start", turn |-> 0, text |-> ""], [ev |-> "end", turn |-> 0, text |-> ""]}
    \cup [ev : {"prompt"}, turn : {turn[s] + 1}, text : PromptText]
    \cup (IF turn[s] = 0 THEN {}
          ELSE [ev : {"stop"}, turn : {turn[s], Max({1, turn[s] - 1})}, text : StopText]
               \cup [ev : {"interrupt"}, turn : {turn[s]}, text : {""}])

\* sweep_stale_unbound: which unbound sessions are a week old is free.
Swept(ev) == IF ev # "start" THEN {{}}
             ELSE SUBSET {s \in Session : ses[s] # NoSession /\ ~Bound(ses[s])}

\* ensure_session and the read of the log, after a SessionStart's sweep.
HookBegin(p, s) ==
    /\ Free(p) /\ sent < (IF overlap THEN MaxRacing ELSE MaxEvents) /\ Allowed
    /\ \E x \in Reports(s) : \E old \in Swept(x.ev) :
         LET fresh == ses[s] = NoSession \/ s \in old
             rec   == IF fresh THEN [h |-> nh + 1, announce |-> TRUE, binds |-> << >>,
                                     ended |-> FALSE]
                      ELSE ses[s]
             prior == IF s \in old THEN << >> ELSE log[s]
         IN  /\ ses' = [z \in Session |-> IF z = s THEN rec
                                          ELSE IF z \in old THEN NoSession ELSE ses[z]]
             /\ log' = [z \in Session |-> IF z \in old THEN << >> ELSE log[z]]
             /\ pairs' = [z \in Session |-> IF z \in old THEN << >> ELSE pairs[z]]
             /\ handles' = (handles \ {ses[z].h : z \in old})
                           \cup (IF fresh THEN {nh + 1} ELSE {})
             /\ nh' = IF fresh THEN nh + 1 ELSE nh
             /\ turn' = [turn EXCEPT ![s] = IF x.ev = "prompt" THEN x.turn ELSE @]
             /\ op' = [op EXCEPT ![p] = [at |-> "append", s |-> s, rec |-> rec, prior |-> prior,
                          item |-> [ord |-> Top(prior) + 1, ev |-> x.ev,
                                    turn |-> x.turn, text |-> x.text]]]
    /\ sent' = sent + 1
    /\ UNCHANGED <<pb, revoked, overlap, overtaken, asked, crashes>>

\* _enforce_preselection_bound: the oldest events go until the rest fits, and
\* one marker keeps the last ordinal dropped.
Fits(evs) == Len(evs) <= BufferMax /\ \A i \in 1..Len(evs) : evs[i].text # "huge"
Marker(e) == [ord |-> e.ord, ev |-> "evicted", turn |-> 0, text |-> ""]
Evict(evs) ==
    LET kept == Kept(evs)
        n    == Min({k \in 0..Len(kept) : Fits(SubSeq(kept, k + 1, Len(kept)))})
    IN  IF n = 0 THEN evs ELSE <<Marker(kept[n])>> \o SubSeq(kept, n + 1, Len(kept))

Evicts(o) == ~Bound(o.rec) /\ Evict(o.prior \o <<o.item>>) # o.prior \o <<o.item>>

Logged(o) == IF Evicts(o) THEN Evict(o.prior \o <<o.item>>) ELSE Append(log[o.s], o.item)

HookAppend(p) ==
    /\ op[p].at = "append"
    /\ log' = [log EXCEPT ![op[p].s] = Logged(op[p])]
    /\ overtaken' = (overtaken \/ (Evicts(op[p]) /\ log[op[p].s] # op[p].prior))
    /\ Goto(p, IF op[p].item.ev \in {"prompt", "stop"} THEN "pair" ELSE "finish")
    /\ UNCHANGED <<ses, handles, pairs, pb, revoked, overlap, nh, turn, sent, asked, crashes>>

\* resolve_pair: the last Stop since the previous prompt, unless its turn was
\* interrupted; the pair record is never changed.
Floor(evs) == IF Prompts(evs) = {} THEN 0 ELSE evs[Max(Prompts(evs))].ord
Window(evs) == {i \in DOMAIN evs : evs[i].ord > Floor(evs)}
Cut(evs, stop) == \E i \in Window(evs) : evs[i].ev = "interrupt" /\ evs[i].turn = stop.turn
Pair(o, prop) == [kind |-> "pair", h |-> o.rec.h, reply |-> o.item.ord, inc |-> FALSE,
                  prop |-> prop]

\* Mutant: the first of them.
PairFirst(o) ==
    LET stops == Stops(o.prior) \cap Window(o.prior)
    IN  Pair(o, IF stops = {} \/ Cut(o.prior, o.prior[Max(stops)]) THEN 0
                ELSE o.prior[Min(stops)].ord)

PairFor(o) ==
    LET stops == Stops(o.prior) \cap Window(o.prior)
    IN  Pair(o, IF stops = {} \/ Cut(o.prior, o.prior[Max(stops)]) THEN 0
                ELSE o.prior[Max(stops)].ord)

\* classify_late_stop: the Stop of a turn whose pair is frozen.
Starters(o) == {i \in Prompts(o.prior) : o.prior[i].turn = o.item.turn}
Consumers(o) == IF Starters(o) = {} THEN {}
                ELSE {i \in Prompts(o.prior) : o.prior[i].ord > o.prior[Min(Starters(o))].ord}
LateFor(o) ==
    LET reply == o.prior[Min(Consumers(o))].ord
        fixed == Frozen(o.s, o.rec.h, reply)
        prop  == IF fixed = {} THEN 0 ELSE pairs[o.s][Min(fixed)].prop
        said  == {i \in DOMAIN o.prior : o.prior[i].ord = prop}
    IN  [kind |-> "late", h |-> o.rec.h, reply |-> reply, prop |-> 0,
         inc |-> prop # 0 /\ (said # {} => o.prior[Min(said)].text # o.item.text)]

HookPair(p) ==
    LET o == op[p] IN
    /\ o.at = "pair"
    /\ pairs' = IF o.item.ev = "prompt" THEN [pairs EXCEPT ![o.s] = Append(@, PairFor(o))]
                ELSE IF Consumers(o) # {} THEN [pairs EXCEPT ![o.s] = Append(@, LateFor(o))]
                ELSE pairs
    /\ Goto(p, "finish")
    /\ UNCHANGED <<ses, handles, log, pb, revoked, overlap, overtaken, nh, turn, sent, asked, crashes>>

\* The end of handle_event: the record saved is the one loaded at the start.
HookFinish(p) ==
    LET o == op[p]
        announces == o.item.ev = "prompt" /\ o.rec.announce
        discards  == o.item.ev = "end" /\ ~Bound(o.rec)
        ends      == o.item.ev = "end" /\ Bound(o.rec)
    IN
    /\ o.at = "finish"
    /\ ses' = IF announces THEN [ses EXCEPT ![o.s] = [o.rec EXCEPT !.announce = FALSE]]
              ELSE IF ends THEN [ses EXCEPT ![o.s] = [o.rec EXCEPT !.ended = TRUE]]
              ELSE IF discards THEN [ses EXCEPT ![o.s] = NoSession]
              ELSE ses
    /\ handles' = IF discards THEN handles \ {o.rec.h} ELSE handles
    /\ log' = IF discards THEN [log EXCEPT ![o.s] = << >>] ELSE log
    /\ pairs' = IF discards THEN [pairs EXCEPT ![o.s] = << >>] ELSE pairs
    /\ overtaken' = (overtaken \/ ((announces \/ ends) /\ ~Present(o))
                              \/ (discards /\ ses[o.s] # o.rec))
    /\ Done(p)
    /\ UNCHANGED <<pb, revoked, overlap, nh, turn, sent, asked, crashes>>

-----------------------------------------------------------------------------
\* select_project.

OpenIn(r) == {i \in 1..Len(r.binds) : r.binds[i].to = Ongoing}
ActiveIn(r) == r.binds[Max(OpenIn(r))]
Fresh(r, q, from) == [h |-> r.h, from |-> from, to |-> Ongoing, q |-> q, conf |-> NoConf]
ClosedIn(bs, b, at) ==
    [i \in 1..Len(bs) |-> IF bs[i].h = b.h /\ bs[i].from = b.from
                          THEN [bs[i] EXCEPT !.to = at] ELSE bs[i]]

\* The record of a session that binds q, or unbinds (q = NoProject): the open
\* binding ends at the last ordinal, and all but the first binding start after it.
FromOne(r, last) == IF OpenIn(r) # {} THEN last + 1 ELSE 1
From(r, last) == IF Bound(r) THEN last + 1 ELSE 1
SelectedRec(r, q, last) ==
    LET closed == IF OpenIn(r) = {} THEN r.binds
                  ELSE [r.binds EXCEPT ![Max(OpenIn(r))].to = last]
    IN  IF q = NoProject THEN [r EXCEPT !.binds = closed]
        ELSE [r EXCEPT !.binds = Append(closed, Fresh(r, q, From(r, last))),
                       !.announce = @ \/ Bound(r)]

\* The read of the record and of the log.  A session bound to q already is
\* answered "already-bound" and changes nothing.
SelectBegin(p, s, q) ==
    /\ Free(p) /\ asked < MaxCommands /\ Allowed
    /\ ses[s] # NoSession /\ ses[s].h \in handles
    /\ LET r == ses[s]
           last == Top(log[s])
       IN  /\ IF OpenIn(r) = {} THEN q # NoProject ELSE ActiveIn(r).q # q
           /\ op' = [op EXCEPT ![p] =
                 [at |-> IF OpenIn(r) = {} THEN "open" ELSE "close", s |-> s, q |-> q,
                  rec |-> SelectedRec(r, q, last), last |-> last,
                  old |-> IF OpenIn(r) = {} THEN NoSession ELSE ActiveIn(r),
                  snap |-> pb[IF OpenIn(r) = {} THEN q ELSE ActiveIn(r).q]]]
    /\ asked' = asked + 1
    /\ UNCHANGED <<files, overlap, overtaken, nh, turn, sent, crashes>>

\* _close_binding: the whole file is written back from what was read.
SelectCloseRecordOnly(p) ==
    LET o == op[p] IN
    /\ o.at = "close"
    /\ IF o.q = NoProject THEN Goto(p, "save")
       ELSE op' = [op EXCEPT ![p].at = "open", ![p].snap = pb[o.q]]
    /\ UNCHANGED <<files, overlap, overtaken, nh, turn, sent, asked, crashes>>

SelectClose(p) ==
    LET o == op[p] IN
    /\ o.at = "close"
    /\ pb' = [pb EXCEPT ![o.old.q] = ClosedIn(o.snap, o.old, o.last)]
    /\ IF o.q = NoProject THEN Goto(p, "save")
       ELSE op' = [op EXCEPT ![p].at = "open", ![p].snap = pb[o.q]]
    /\ UNCHANGED <<ses, handles, log, pairs, revoked, overlap, overtaken, nh, turn, sent, asked, crashes>>

\* _open_binding
SelectOpen(p) ==
    LET o == op[p] IN
    /\ o.at = "open"
    /\ pb' = [pb EXCEPT ![o.q] = Append(o.snap, o.rec.binds[Len(o.rec.binds)])]
    /\ Goto(p, "save")
    /\ UNCHANGED <<ses, handles, log, pairs, revoked, overlap, overtaken, nh, turn, sent, asked, crashes>>

\* save_session; then the outcome is reported.
SelectSave(p) ==
    /\ op[p].at = "save"
    /\ ses' = [ses EXCEPT ![op[p].s] = op[p].rec]
    /\ overtaken' = (overtaken \/ ~Present(op[p]))
    /\ Goto(p, "saved")
    /\ UNCHANGED <<handles, log, pairs, pb, revoked, overlap, nh, turn, sent, asked, crashes>>

SelectReport(p) ==
    /\ op[p].at = "saved"
    /\ Done(p)
    /\ UNCHANGED <<files, overlap, overtaken, nh, turn, sent, asked, crashes>>

-----------------------------------------------------------------------------
\* The lock of requirements or plan, and the operator's revocation.

\* prepare_confirmation: with no confirmation in force, the last captured
\* reply of the chosen binding.
LockBegin(p, q) ==
    /\ Free(p) /\ asked < MaxCommands /\ Allowed
    /\ Corroborated(q) /\ Active(q) = {}
    /\ \E h \in {pb[q][i].h : i \in Bindings(q)} :
         LET b == Chosen(q, h) IN
         /\ TurnsOf(b) # {}
         /\ \E t \in TurnsOf(b) :
              /\ \A u \in TurnsOf(b) : u.ord <= t.ord
              /\ Usable(t) /\ Id(t) \notin revoked[q]
              /\ op' = [op EXCEPT ![p] = [at |-> "bindread", q |-> q, b |-> b,
                                          conf |-> [reply |-> t.ord, prop |-> t.prop]]]
    /\ asked' = asked + 1
    /\ UNCHANGED <<files, overlap, overtaken, nh, turn, sent, crashes>>

\* bind_confirmation: it refuses when the binding is gone.
Same(b, c) == b.h = c.h /\ b.from = c.from
LockRead(p) ==
    LET o == op[p] IN
    /\ o.at = "bindread"
    /\ op' = [op EXCEPT ![p] = IF \E c \in Range(pb[o.q]) : Same(c, o.b)
                                THEN [at |-> "bindwrite", q |-> o.q, b |-> o.b,
                                      conf |-> o.conf, snap |-> pb[o.q]]
                                ELSE Idle]
    /\ UNCHANGED <<files, overlap, overtaken, nh, turn, sent, asked, crashes>>

LockWrite(p) ==
    LET o == op[p] IN
    /\ o.at = "bindwrite"
    /\ pb' = [pb EXCEPT ![o.q] = [i \in 1..Len(o.snap) |->
                  IF Same(o.snap[i], o.b) THEN [o.snap[i] EXCEPT !.conf = o.conf]
                  ELSE o.snap[i]]]
    /\ Done(p)
    /\ UNCHANGED <<ses, handles, log, pairs, revoked, overlap, overtaken, nh, turn, sent, asked, crashes>>

\* revoke-evidence, of a captured turn: only the ledger changes.
Revoke(q) ==
    /\ asked < MaxCommands /\ Allowed
    /\ \E t \in Turns(q) : /\ Id(t) \notin revoked[q]
                           /\ revoked' = [revoked EXCEPT ![q] = @ \cup {Id(t)}]
    /\ asked' = asked + 1
    /\ UNCHANGED <<ses, handles, log, pairs, pb, op, overlap, overtaken, nh, turn, sent, crashes>>

Crash(p) ==
    /\ crashes < MaxCrashes /\ op[p] # Idle
    /\ Done(p) /\ crashes' = crashes + 1
    /\ UNCHANGED <<files, overlap, overtaken, nh, turn, sent, asked>>

Next ==
    \/ \E p \in Proc :
         \/ \E s \in Session : \/ HookBegin(p, s)
                               \/ \E q \in Project \cup {NoProject} : SelectBegin(p, s, q)
         \/ HookAppend(p) \/ HookPair(p) \/ HookFinish(p)
         \/ SelectClose(p) \/ SelectOpen(p) \/ SelectSave(p) \/ SelectReport(p)
         \/ \E q \in Project : LockBegin(p, q)
         \/ LockRead(p) \/ LockWrite(p) \/ Crash(p)
    \/ \E q \in Project : Revoke(q)

Spec == Init /\ [][Next]_vars

-----------------------------------------------------------------------------
\* Properties.

\* A captured turn is evidence of one project only, however hooks, commands
\* and crashes interleave: ranges of one session never meet, and the record a
\* late hook puts back unbinds rather than binding twice.  Not so once a hook has
\* evicted from a log that had grown, or a session was removed or put back under
\* an operation that was still at it: ordinals are then given out again.
OneProjectPerTurn == ~overtaken =>
    \A q, r \in Project : q # r => {Id(t) : t \in Turns(q)} \cap {Id(t) : t \in Turns(r)} = {}

\* A select that reports bound, switched or unbound leaves every binding of its
\* session that can hold a turn receipted in its project, also when earlier
\* ones died half-way.
SelectHeals ==
    ~overlap => \A p \in Proc : op[p].at = "saved" =>
        \A b \in Range(ses[op[p].s].binds) : b.to = Ongoing \/ b.to >= b.from =>
            \E c \in Range(pb[b.q]) : Same(b, c) /\ c.to = b.to

\* A reply that counts as answering what the turn before it proposed answers
\* the last thing that turn said: a Stop after the reply that said something
\* else marks the pair (while the prompt that began the turn is in the log).
PairedMeansLast ==
    (~overlap /\ crashes = 0 /\ \A p \in Proc : op[p] = Idle) =>
    \A s \in Session : \A i \in 1..Len(pairs[s]) :
        LET x == pairs[s][i]
            evs == Range(log[s])
        IN  (x.kind = "pair" /\ ~Inconsistent(s, x.h, x.reply)) =>
            \A e, f, g \in evs :
                (/\ e.ev = "stop" /\ e.ord = x.prop
                 /\ f.ev = "stop" /\ f.turn = e.turn /\ f.ord > e.ord
                 /\ g.ev = "prompt" /\ g.turn = e.turn
                 /\ \A z \in evs : z.ev = "prompt" /\ z.ord > g.ord => z.ord >= x.reply)
                    => f.text = e.text
=============================================================================
