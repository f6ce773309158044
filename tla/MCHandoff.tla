----------------------------- MODULE MCHandoff -----------------------------
(***************************************************************************)
(* A handoff for TLC: the launches into one slot, by Handoff, and beside   *)
(* it what goes on within one native Claude launch, by ClaudeSession.      *)
(* They share no variable: a behaviour is one of the first or one of the   *)
(* second, as part says; ActsAsLaunch is what relates them.                *)
(***************************************************************************)
EXTENDS Handoff

CONSTANTS Ceilings, MaxWrites

VARIABLES part, launch, place, draft, claude, nudged, counted, child,
          watcher, wrapper, raw, done, published, exit, writes

S == INSTANCE ClaudeSession WITH slot <- place, stage <- draft

within == <<launch, place, draft, claude, nudged, counted, child,
            watcher, wrapper, raw, done, published, exit, writes>>

Outside ==
    /\ part = "handoff" /\ Init
    /\ launch = [staging |-> FALSE] /\ place = S!Absent /\ draft = S!Absent
    /\ published = S!Absent
    /\ claude = "none" /\ nudged = FALSE /\ counted = 0 /\ child = "none"
    /\ watcher = "off" /\ wrapper = "ended"
    /\ raw = "ok" /\ done = FALSE /\ exit = "ok" /\ writes = 0

Inside ==
    /\ part = "session" /\ S!Init
    /\ report = NoReport /\ status = NoStatus /\ snapshot = 0
    /\ sup = [l \in Launch |-> "none"] /\ surv = [l \in Launch |-> "none"]
    /\ wrap = <<>> /\ asg = <<>> /\ staged = <<>> /\ stage = <<>> /\ rev = <<>> /\ logged = <<>>
    /\ pm = "none" /\ cur = 0 /\ seen = <<>> /\ accepted = Nothing /\ routed = Nothing

HandoffNext == part = "handoff" /\ Next /\ UNCHANGED <<part, within>>

SessionNext == part = "session" /\ S!Next /\ UNCHANGED <<part, vars>>

MCSpec == /\ Outside \/ Inside
          /\ [][HandoffNext \/ SessionNext]_<<part, vars, within>>
          /\ \A l \in Launch :
                /\ WF_vars(part = "handoff" /\ SupervisorStep(l))
                /\ WF_vars(part = "handoff" /\ WrapperStep(l))
                /\ WF_vars(part = "handoff" /\ AssigneeExit(l))
          /\ WF_within(part = "session" /\ S!Progress)

\* The guard cannot strand a session (ClaudeSession!SessionEnds).
SessionEnds == S!SessionEnds

\* A launch that ends well because a report was seen leaves one
\* (ClaudeSession!SuccessHasReport).
SuccessHasReport == part = "session" => S!SuccessHasReport

\* Within a launch nothing happens that Handoff does not allow
\* (ClaudeSession!ActsAsLaunch).
ActsAsLaunch == [][part = "session" => S!H!LaunchStep(1)]_<<S!H!slot, S!H!procs>>
=============================================================================
