--------------------------- MODULE ScreenCapture ---------------------------
(***************************************************************************)
(* The screencapture-detect analyzer: a thread polls `dumpsys activity     *)
(* services' for a foreground service of the media-projection type and     *)
(* reports the change to active, with the number of Binder calls to        *)
(* system_server that a tracepoint has counted                             *)
(* (modules/screencapture_detect.bpf.c, screencapture_detect.c and         *)
(* screencapture_detect_parse.c).                                          *)
(*                                                                         *)
(* The output of dumpsys is a sequence of ServiceRecord blocks; of a block *)
(* remain the answers to the questions the parser asks.  The capture       *)
(* sessions of the app are numbered.                                       *)
(***************************************************************************)
EXTENDS Naturals, Sequences, FiniteSets, FiniteSetsExt

CONSTANTS Threads,       \* threads of the app that call system_server
          MaxSessions,   \* bound: capture sessions
          MaxCalls,      \* bound: Binder calls
          MaxFailures    \* bound: failures of dumpsys

VARIABLES session,       \* the app's sessions so far; the last one may be active
          active,        \* ... and is
          other,         \* another service of the app is listed before it
          binder_count,  \* binder_count_map: 0 for no entry
          call,          \* per thread: where it is in on_binder_transaction
          at,            \* the polling thread
          out,           \* the output it parses
          g_mp_state, calls_read,
          failures,      \* bound
          stats,         \* mediaproj_stats: sessions and total_binder_calls
          made, lost,    \* history: calls made; calls that no counter has
          shown,         \* history: the session `out' shows, 0 for none
          reports,       \* history: per session, alerts
          seen           \* history: sessions shown by the active answers in a row until now

appVars == <<session, active, other>>
pollVars == <<at, out, g_mp_state, calls_read, failures, stats, shown, reports, seen>>
vars == <<appVars, binder_count, call, made, lost, pollVars>>

Sessions == 1 .. MaxSessions

Init ==
    /\ session = 0 /\ active = FALSE /\ other \in BOOLEAN
    /\ binder_count = 0 /\ call = [t \in Threads |-> "idle"]
    /\ at = "sleep" /\ out = <<>> /\ g_mp_state = "unknown" /\ calls_read = 0
    /\ failures = 0 /\ stats = [sessions |-> 0, calls |-> 0]
    /\ made = 0 /\ lost = 0 /\ shown = 0
    /\ reports = [s \in Sessions |-> 0] /\ seen = {}

-----------------------------------------------------------------------------
(* The app *)

Begin ==
    /\ ~active /\ session < MaxSessions
    /\ session' = session + 1 /\ active' = TRUE
    /\ UNCHANGED <<other, binder_count, call, made, lost, pollVars>>

End ==
    /\ active
    /\ active' = FALSE
    /\ UNCHANGED <<session, other, binder_count, call, made, lost, pollVars>>

(* on_binder_transaction: the lookup decides between adding to the entry   *)
(* found and inserting a first one.                                        *)
Transaction(t) ==
    /\ call[t] = "idle" /\ made < MaxCalls
    /\ made' = made + 1
    /\ call' = [call EXCEPT ![t] = IF binder_count > 0 THEN "add" ELSE "insert"]
    /\ UNCHANGED <<appVars, binder_count, lost, pollVars>>

(* The addition is atomic, but goes to the entry the lookup found.  If     *)
(* that has been deleted since, its memory is free or, the map's memory    *)
(* being recycled, that of the entry inserted after it.                    *)
Add(t) ==
    /\ call[t] \in {"add", "add_deleted"}
    /\ call' = [call EXCEPT ![t] = "idle"]
    /\ \/ /\ call[t] = "add" \/ binder_count > 0
          /\ binder_count' = binder_count + 1
          /\ UNCHANGED lost
       \/ /\ call[t] = "add_deleted"
          /\ lost' = lost + 1
          /\ UNCHANGED binder_count
    /\ UNCHANGED <<appVars, made, pollVars>>

(* BPF_NOEXIST: of two threads that both found no entry, one inserts it    *)
(* and the call of the other is lost.                                      *)
Insert(t) ==
    /\ call[t] = "insert"
    /\ call' = [call EXCEPT ![t] = "idle"]
    /\ IF binder_count = 0 THEN binder_count' = 1 /\ UNCHANGED lost
                           ELSE lost' = lost + 1 /\ UNCHANGED binder_count
    /\ UNCHANGED <<appVars, made, pollVars>>

-----------------------------------------------------------------------------
(* screencapture_detect_parse_dumpsys *)

Block(pkg, fg, projection) == [pkg |-> pkg, fg |-> fg, projection |-> projection]

(* What dumpsys prints: a heading, then the services of the app, one of    *)
(* them the projection service while a session is active.                  *)
Listing == <<Block(FALSE, FALSE, FALSE)>>
           \o (IF other THEN <<Block(TRUE, TRUE, FALSE)>> ELSE <<>>)
           \o IF active THEN <<Block(TRUE, TRUE, TRUE)>> ELSE <<>>

(* Nothing at all is no answer; otherwise some block must be of the        *)
(* package, in the foreground and of the type.                             *)
parse_dumpsys(o) ==
    IF o = <<>> THEN "unknown"
    ELSE IF \E n \in DOMAIN o : o[n].pkg /\ o[n].fg /\ o[n].projection THEN "active" ELSE "inactive"

(* mediaproj_poll_loop: the output is captured.  anubee_sh_exec may fail,  *)
(* which the parser's answer to no output stands for too, and keeps as     *)
(* many bytes as the buffer holds: blocks at the end may be cut off.       *)
PollSleep ==
    /\ at = "sleep"
    /\ \E n \in 0 .. Len(Listing) :
          /\ out' = SubSeq(Listing, 1, n)
          /\ shown' = IF active /\ n = Len(Listing) THEN session ELSE 0
          /\ failures' = IF n < Len(Listing) THEN failures + 1 ELSE failures
    /\ failures' <= MaxFailures
    /\ at' = "parse"
    /\ UNCHANGED <<appVars, binder_count, call, made, lost, g_mp_state, calls_read, stats, reports, seen>>

(* Plausible bug: every active answer is reported. *)
PollParse_Level ==
    LET now == parse_dumpsys(out)
    IN  /\ at = "parse"
        /\ g_mp_state' = now
        /\ at' = IF now = "active" THEN "read" ELSE "sleep"
        /\ seen' = IF now # "active" THEN {} ELSE IF g_mp_state = "active" THEN seen \cup {shown} ELSE {shown}
        /\ UNCHANGED <<appVars, binder_count, call, made, lost, out, calls_read, failures, stats, shown, reports>>

(* Only the change to active is reported. *)
PollParse ==
    LET now == parse_dumpsys(out)
    IN  /\ at = "parse"
        /\ g_mp_state' = now
        /\ at' = IF now = "active" /\ g_mp_state # "active" THEN "read" ELSE "sleep"
        /\ seen' = IF now # "active" THEN {} ELSE IF g_mp_state = "active" THEN seen \cup {shown} ELSE {shown}
        /\ UNCHANGED <<appVars, binder_count, call, made, lost, out, calls_read, failures, stats, shown, reports>>

(* mediaproj_read_and_reset_binder_count: a lookup, then a delete. *)
PollRead ==
    /\ at = "read"
    /\ calls_read' = binder_count /\ at' = "reset"
    /\ UNCHANGED <<appVars, binder_count, call, made, lost, out, g_mp_state, failures, stats, shown, reports, seen>>

(* Plausible bug: the counter is read and not reset. *)
PollReset_Kept ==
    /\ at = "reset" /\ at' = "emit"
    /\ UNCHANGED <<appVars, binder_count, call, made, lost, out, g_mp_state, calls_read, failures, stats, shown, reports, seen>>

PollReset ==
    /\ at = "reset" /\ at' = "emit"
    /\ lost' = lost + (binder_count - calls_read)
    /\ binder_count' = 0
    /\ call' = [t \in Threads |-> IF call[t] = "add" THEN "add_deleted" ELSE call[t]]
    /\ UNCHANGED <<appVars, made, out, g_mp_state, calls_read, failures, stats, shown, reports, seen>>

(* mediaproj_emit_one, mediaproj_stat_add *)
PollEmit ==
    /\ at = "emit" /\ at' = "sleep"
    /\ stats' = [sessions |-> stats.sessions + 1, calls |-> stats.calls + calls_read]
    /\ reports' = [reports EXCEPT ![shown] = @ + 1]
    /\ calls_read' = 0
    /\ UNCHANGED <<appVars, binder_count, call, made, lost, out, g_mp_state, failures, shown, seen>>

Next ==
    \/ Begin \/ End
    \/ \E t \in Threads : Transaction(t) \/ Add(t) \/ Insert(t)
    \/ PollSleep \/ PollParse \/ PollRead \/ PollReset \/ PollEmit

Spec == Init /\ [][Next]_vars

-----------------------------------------------------------------------------
(* Properties *)

TypeOK ==
    /\ session \in 0 .. MaxSessions /\ {active, other} \subseteq BOOLEAN
    /\ binder_count \in 0 .. MaxCalls /\ calls_read \in 0 .. MaxCalls /\ lost \in 0 .. MaxCalls
    /\ call \in [Threads -> {"idle", "add", "add_deleted", "insert"}]
    /\ at \in {"sleep", "parse", "read", "reset", "emit"}
    /\ g_mp_state \in {"unknown", "inactive", "active"}
    /\ reports \in [Sessions -> Nat] /\ seen \subseteq Sessions /\ shown \in 0 .. MaxSessions

(* A session is reported again only after a poll that failed or whose      *)
(* output was cut: once per session and failure, never once per poll.      *)
ReportedOncePerAnswer == \A s \in Sessions : reports[s] <= 1 + failures

(* A run of active answers has been reported when the thread goes to       *)
(* sleep, for the session it began with.  Sessions that follow each other  *)
(* with no poll between them are taken for one: only the first is.         *)
SeenIsReported == at = "sleep" /\ seen # {} => reports[Min(seen)] > 0

(* A session that a poll has seen is reported, and reported once.          *)
SessionsReported == ReportedOncePerAnswer /\ SeenIsReported

(* A Binder call is attributed to at most one report: what was reported,   *)
(* what is still counted and what the races lose are all calls made.       *)
CallsReportedOnce ==
    LET entered == Cardinality({t \in Threads : call[t] # "idle"})
        taken == IF at = "emit" THEN calls_read ELSE 0
    IN  stats.calls + taken + binder_count + entered + lost = made
=============================================================================
