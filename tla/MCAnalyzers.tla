---------------------------- MODULE MCAnalyzers -----------------------------
(***************************************************************************)
(* The analyzers of mod whose threads and callbacks meet in kernel maps:   *)
(* bursts of accesses, bytes sent after a sensitive read, screen capture   *)
(* and anonymous executable memory. A behaviour is one of the chosen       *)
(* component; the others have no state.                                    *)
(***************************************************************************)
EXTENDS BurstDetect, TLC

CONSTANTS a, b, p, q, x, y

VARIABLES part,   \* the component that runs in this behaviour
          x_clock, x_fd, x_sock_fds, x_room, x_st, x_h, x_ring, x_drops, x_stats,
          x_log, x_alerts, x_untold, x_stray, x_raced,
          s_session, s_active, s_other, s_binder_count, s_call, s_at, s_out,
          s_g_mp_state, s_calls_read, s_failures, s_stats, s_made, s_lost, s_shown,
          s_reports, s_seen,
          f_clock, f_hooks, f_call, f_entry_scratch, f_pending_map, f_at, f_key,
          f_next_key, f_val, f_g_poll_stop, f_made, f_alerted, f_unseen, f_left,
          f_raced, f_full

x_vars == <<x_clock, x_fd, x_sock_fds, x_room, x_st, x_h, x_ring, x_drops, x_stats,
             x_log, x_alerts, x_untold, x_stray, x_raced>>
s_vars == <<s_session, s_active, s_other, s_binder_count, s_call, s_at, s_out,
             s_g_mp_state, s_calls_read, s_failures, s_stats, s_made, s_lost,
             s_shown, s_reports, s_seen>>
f_vars == <<f_clock, f_hooks, f_call, f_entry_scratch, f_pending_map, f_at, f_key,
             f_next_key, f_val, f_g_poll_stop, f_made, f_alerted, f_unseen, f_left,
             f_raced, f_full>>

Exfil == INSTANCE ExfilDetect WITH
       Threads <- Threads, Fds <- {1}, Sizes <- {1, 2}, BYTE_THRESHOLD <- 2,
       WINDOW <- 1, RECENT <- 0, RING_LEN <- 2, SockCap <- 1, RingCap <- 1,
       MaxLog <- 4, MaxRaced <- 3, MaxFdLog <- 0, MaxTime <- 2, clock <- x_clock,
       fd <- x_fd, sock_fds <- x_sock_fds, room <- x_room, st <- x_st, h <- x_h,
       ring <- x_ring, drops <- x_drops, stats <- x_stats, log <- x_log,
       alerts <- x_alerts, untold <- x_untold, stray <- x_stray, raced <- x_raced

ExfilFds == INSTANCE ExfilDetect WITH
       Threads <- {1}, Fds <- {1, 2}, Sizes <- {1, 2}, BYTE_THRESHOLD <- 2,
       WINDOW <- 2, RECENT <- 1, RING_LEN <- 2, SockCap <- 1, RingCap <- 1,
       MaxLog <- 1, MaxRaced <- 1, MaxFdLog <- 1, MaxTime <- 0, clock <- x_clock,
       fd <- x_fd, sock_fds <- x_sock_fds, room <- x_room, st <- x_st, h <- x_h,
       ring <- x_ring, drops <- x_drops, stats <- x_stats, log <- x_log,
       alerts <- x_alerts, untold <- x_untold, stray <- x_stray, raced <- x_raced

Screen == INSTANCE ScreenCapture WITH
       Threads <- Threads, MaxSessions <- 2, MaxCalls <- 4, MaxFailures <- 2,
       session <- s_session, active <- s_active, other <- s_other,
       binder_count <- s_binder_count, call <- s_call, at <- s_at, out <- s_out,
       g_mp_state <- s_g_mp_state, calls_read <- s_calls_read,
       failures <- s_failures, stats <- s_stats, made <- s_made, lost <- s_lost,
       shown <- s_shown, reports <- s_reports, seen <- s_seen

File == INSTANCE FilelessDetect WITH
       Threads <- Threads, NKeys <- 2, Grace <- 1, ScratchCap <- 1, PendingCap <- 1,
       MaxMaps <- 2, MaxTime <- 1, clock <- f_clock, hooks <- f_hooks,
       call <- f_call, entry_scratch <- f_entry_scratch,
       pending_map <- f_pending_map, at <- f_at, key <- f_key,
       next_key <- f_next_key, val <- f_val, g_poll_stop <- f_g_poll_stop,
       made <- f_made, alerted <- f_alerted, unseen <- f_unseen, left <- f_left,
       raced <- f_raced, full <- f_full

(* A component that does not run has no state. *)
NoExfil ==
    /\ x_clock = 0 /\ x_fd = 0 /\ x_sock_fds = 0 /\ x_room = 0 /\ x_st = 0
    /\ x_h = 0 /\ x_ring = 0 /\ x_drops = 0 /\ x_stats = 0 /\ x_log = 0
    /\ x_alerts = 0 /\ x_untold = 0 /\ x_stray = 0 /\ x_raced = 0

NoScreen ==
    /\ s_session = 0 /\ s_active = 0 /\ s_other = 0 /\ s_binder_count = 0
    /\ s_call = 0 /\ s_at = 0 /\ s_out = 0 /\ s_g_mp_state = 0
    /\ s_calls_read = 0 /\ s_failures = 0 /\ s_stats = 0 /\ s_made = 0
    /\ s_lost = 0 /\ s_shown = 0 /\ s_reports = 0 /\ s_seen = 0

NoFile ==
    /\ f_clock = 0 /\ f_hooks = 0 /\ f_call = 0 /\ f_entry_scratch = 0
    /\ f_pending_map = 0 /\ f_at = 0 /\ f_key = 0 /\ f_next_key = 0
    /\ f_val = 0 /\ f_g_poll_stop = 0 /\ f_made = 0 /\ f_alerted = 0
    /\ f_unseen = 0 /\ f_left = 0 /\ f_raced = 0 /\ f_full = 0

(* The two threads of the target are interchangeable, and so are its two   *)
(* processes.                                                              *)
Symmetry == Permutations(Threads) \cup Permutations(Procs) \cup Permutations(Items)

AnalyzersInit ==
    /\ part \in {"burst", "exfil", "exfil_fds", "screen", "fileless"}
    /\ Init
    /\ part # "burst" => \A t, u \in Threads : proc[t] = proc[u]
    /\ CASE part = "exfil" -> Exfil!Init
         [] part = "exfil_fds" -> ExfilFds!Init
         [] OTHER -> NoExfil
    /\ IF part = "screen" THEN Screen!Init ELSE NoScreen
    /\ IF part = "fileless" THEN File!Init ELSE NoFile

AnalyzersNext ==
    /\ \/ /\ part = "burst" /\ Next
          /\ UNCHANGED <<x_vars, s_vars, f_vars>>
       \/ /\ \/ part = "exfil" /\ Exfil!Next
             \/ part = "exfil_fds" /\ ExfilFds!Next
          /\ UNCHANGED <<vars, s_vars, f_vars>>
       \/ /\ part = "screen" /\ Screen!Next
          /\ UNCHANGED <<vars, x_vars, f_vars>>
       \/ /\ part = "fileless" /\ File!Next
          /\ UNCHANGED <<vars, x_vars, s_vars>>
    /\ UNCHANGED part

AnalyzersSpec ==
    AnalyzersInit /\ [][AnalyzersNext]_<<part, vars, x_vars, s_vars, f_vars>>
-----------------------------------------------------------------------------
(* The properties of the analyzers *)
\* The windows, counters, rings and maps of the four analyzers have their types and
\* stay within their bounds.
TypesOK ==
    /\ TypeOK
    /\ part = "exfil" => Exfil!TypeOK
    /\ part = "exfil_fds" => ExfilFds!TypeOK
    /\ part = "screen" => Screen!TypeOK
    /\ part = "fileless" => File!TypeOK

\* Alerts and bursts agree: an alert is backed by touches of its window, the slots of an
\* unraced one name them, and an unraced process that reaches the threshold is reported.
BurstAlertsExact == AlertsBacked /\ AlertExact /\ NoBurstMissed

\* Alerts and transfers agree: an alert is backed by bytes sent on sockets after a
\* sensitive open, its evidence is what was opened in the window, it is delivered or
\* counted, and without races a transfer that reaches the threshold raises it.
ExfilAlertsExact ==
    /\ part = "exfil" =>
         /\ Exfil!AlertsBacked /\ Exfil!EvidenceExact /\ Exfil!AlertsAccounted
         /\ Exfil!OnlySocketsCount /\ Exfil!NoBurstMissed
    /\ part = "exfil_fds" =>
         /\ ExfilFds!AlertsBacked /\ ExfilFds!EvidenceExact /\ ExfilFds!AlertsAccounted
         /\ ExfilFds!OnlySocketsCount /\ ExfilFds!NoBurstMissed

\* The first session of a run of active answers is reported, and a session is reported
\* again only after a poll that did not list it.
SessionsReported == part = "screen" => Screen!SessionsReported

\* No Binder call is reported twice, and only calls in the reset are lost.
CallsReportedOnce == part = "screen" => Screen!CallsReportedOnce

\* An alert names memory that stayed anonymous and unnamed for the grace period.
AlertsGenuine == part = "fileless" => File!AlertsGenuine

\* A candidate leaves the map only by a name, an alert or a loss the code accepts.
NoCandidateLost == part = "fileless" => File!NoCandidateLost
=============================================================================
