---------------------------- MODULE ExfilDetect ----------------------------
(***************************************************************************)
(* The exfil-detect analyzer: opening a sensitive file arms the state of   *)
(* the process, bytes written to its tracked sockets are added up, and     *)
(* BYTE_THRESHOLD of them within WINDOW raise an alert                     *)
(* (modules/exfil_detect.bpf.c, modules/exfil_detect.c).                   *)
(*                                                                         *)
(* One process; its threads update one map value from several CPUs without *)
(* a lock, so a handler is several steps.  sample_path, dest and comm only *)
(* decorate the alert and are left out; a path in the ring is the time of  *)
(* its open.                                                               *)
(***************************************************************************)
EXTENDS Integers, Sequences, SequencesExt, FiniteSets

CONSTANTS Threads, Fds,
          Sizes,           \* byte counts of a send
          BYTE_THRESHOLD, WINDOW, RECENT,
          RING_LEN,        \* EXFIL_DETECT_RING_LEN (32)
          SockCap,         \* max_entries of sock_fds (256)
          RingCap,         \* alerts events_rb holds
          MaxLog, MaxRaced,\* bounds: opens and sends of a run; the same when threads meet
          MaxFdLog,        \* bound: descriptors change only while the log is no longer than this
          MaxTime          \* bound: the clock

VARIABLES clock,
          fd,              \* the kernel: what each descriptor is
          sock_fds,        \* tracked descriptors
          room,            \* exfil_map has room for this process
          st,              \* exfil_map: the process's state; `there' when it exists
          h,               \* per thread: where it is in a handler, and its locals
          ring, drops,     \* events_rb: bytes_sent of the alerts in it; the drop counter
          stats,           \* eb_stats: bursts and largest byte count
          log,             \* history: sensitive opens and counted sends, in order
          alerts,          \* history: alerts raised, with the log's length at the time
          untold,          \* history: descriptors that became another thing unseen
          stray,           \* history: sends counted that did not go to a remote socket
          raced            \* history: two threads met in the handlers

vars == <<clock, fd, sock_fds, room, st, h, ring, drops, stats, log, alerts, untold, stray, raced>>

Slots == 0 .. RING_LEN - 1
Unset == -1 - RECENT - WINDOW
Idle == [pc |-> "idle", now |-> 0, n |-> 0, tmp |-> 0]
Zero == [there |-> FALSE, window_start |-> 0, primed |-> FALSE, bytes_sent |-> 0,
         path_count |-> 0, truncated |-> FALSE, ts |-> [s \in Slots |-> Unset]]

Init ==
    /\ clock = 0
    /\ fd \in [Fds -> {"free"}]
    /\ sock_fds = {} /\ untold = {} /\ stray = 0
    /\ room \in BOOLEAN
    /\ st = Zero
    /\ h = [t \in Threads |-> Idle]
    /\ ring = <<>> /\ drops = 0
    /\ stats = [bursts |-> 0, max |-> 0]
    /\ log = <<>> /\ alerts = <<>>
    /\ raced = FALSE

-----------------------------------------------------------------------------
(* Entering a handler *)

At(t, pc) == h[t].pc = pc
Goto(t, pc) == h' = [h EXCEPT ![t].pc = pc]
Leave(t) == h' = [h EXCEPT ![t] = Idle]

sockVars == <<fd, sock_fds, untold>>
outVars == <<ring, drops, stats, alerts>>
hist == <<clock, room, log, stray, raced, sockVars>>

Expired(now) == now < st.window_start \/ now - st.window_start > WINDOW

Begin(t, pc, n, e) ==
    /\ At(t, "idle")
    /\ raced' = (raced \/ \E u \in Threads \ {t} : ~At(u, "idle"))
    /\ Len(log) < (IF raced' THEN MaxRaced ELSE MaxLog)
    /\ h' = [h EXCEPT ![t] = [pc |-> pc, now |-> clock, n |-> n, tmp |-> 0]]
    /\ log' = Append(log, e)

(* on_openat, on_openat2: the path has passed path_is_sensitive. *)
OpenSensitive(t) ==
    /\ Begin(t, "arm", 0, [op |-> "open", at |-> clock, n |-> 0])
    /\ UNCHANGED <<clock, room, st, outVars, sockVars, stray>>

(* arm_on_sensitive_read: a new state, or a new window when it is stale. *)
Arm(t) ==
    /\ At(t, "arm")
    /\ IF ~st.there
       THEN IF room THEN /\ st' = [Zero EXCEPT !.there = TRUE, !.window_start = h[t].now]
                         /\ Goto(t, "prime")
                    ELSE Leave(t) /\ UNCHANGED st
       ELSE /\ st' = IF Expired(h[t].now)
                     THEN [st EXCEPT !.window_start = h[t].now, !.bytes_sent = 0,
                                     !.path_count = 0, !.truncated = FALSE]
                     ELSE st
            /\ Goto(t, "prime")
    /\ UNCHANGED <<outVars, hist>>

(* ... then it is primed and the path takes the next slot of the ring. *)
Prime(t) ==
    /\ At(t, "prime")
    /\ st' = [st EXCEPT !.primed = TRUE,
                        !.ts[st.path_count % RING_LEN] = h[t].now,
                        !.truncated = @ \/ st.path_count >= RING_LEN,
                        !.path_count = @ + 1]
    /\ Leave(t)
    /\ UNCHANGED <<outVars, hist>>

-----------------------------------------------------------------------------
(* Sending *)

(* on_write, on_writev: only tracked descriptors count; of a writev only   *)
(* the first eight buffers do, so n is what is counted.                    *)
Write(t, f, n) ==
    /\ fd[f] # "free" /\ f \in sock_fds
    /\ Begin(t, "check", n, [op |-> "send", at |-> clock, n |-> n])
    /\ stray' = IF fd[f] = "remote" \/ f \in untold THEN stray ELSE stray + 1
    /\ UNCHANGED <<clock, room, st, outVars, sockVars>>

(* on_sendto: any socket, unless the address given is a loopback address   *)
(* (in which case the handler returns); without one a local socket counts. *)
SendTo(t, n) ==
    /\ Begin(t, "check", n, [op |-> "send", at |-> clock, n |-> n])
    /\ UNCHANGED <<clock, room, st, outVars, sockVars, stray>>

(* Plausible bug: the age of the window is not looked at. *)
Check_NoWindow(t) ==
    /\ At(t, "check")
    /\ IF st.there /\ st.primed THEN Goto(t, "load") ELSE Leave(t)
    /\ UNCHANGED <<st, outVars, hist>>

(* record_bytes *)
Check(t) ==
    /\ At(t, "check")
    /\ IF st.there /\ Expired(h[t].now) THEN Goto(t, "stale1")
       ELSE IF st.there /\ st.primed THEN Goto(t, "load") ELSE Leave(t)
    /\ UNCHANGED <<st, outVars, hist>>

Load(t) ==
    /\ At(t, "load")
    /\ h' = [h EXCEPT ![t].pc = "add", ![t].tmp = st.bytes_sent]
    /\ UNCHANGED <<st, outVars, hist>>

Add(t) ==
    /\ At(t, "add")
    /\ st' = [st EXCEPT !.bytes_sent = h[t].tmp + h[t].n]
    /\ IF h[t].tmp + h[t].n >= BYTE_THRESHOLD THEN Goto(t, "emit") ELSE Leave(t)
    /\ UNCHANGED <<outVars, hist>>

(* How many slots of the ring are recent enough to be reported. *)
recent_count(now) == Cardinality({s \in Slots : st.ts[s] <= now /\ now - st.ts[s] <= RECENT})

(* The event is submitted, or counted as dropped when the ring is full. *)
Emit(t) ==
    /\ At(t, "emit")
    /\ alerts' = Append(alerts, [now |-> h[t].now, bytes |-> st.bytes_sent, after |-> Len(log),
                                 recent |-> recent_count(h[t].now), truncated |-> st.truncated])
    /\ IF Len(ring) < RingCap
       THEN ring' = Append(ring, st.bytes_sent) /\ UNCHANGED drops
       ELSE drops' = drops + 1 /\ UNCHANGED ring
    /\ Goto(t, "reset1")
    /\ UNCHANGED <<st, stats, hist>>

(* Either way, and for a stale window too, the state is disarmed in two    *)
(* stores.                                                                 *)
Reset1(t) ==
    /\ h[t].pc \in {"stale1", "reset1"}
    /\ st' = [st EXCEPT !.primed = FALSE]
    /\ Goto(t, "reset2")
    /\ UNCHANGED <<outVars, hist>>

Reset2(t) ==
    /\ At(t, "reset2")
    /\ st' = [st EXCEPT !.bytes_sent = 0]
    /\ Leave(t)
    /\ UNCHANGED <<outVars, hist>>

-----------------------------------------------------------------------------
(* Descriptors.  These handlers touch one map entry each. *)

fdRest == <<clock, room, st, h, outVars, log, stray, raced>>

(* A file or a pipe is opened. *)
Open(f) ==
    /\ Len(log) <= MaxFdLog /\ fd[f] = "free"
    /\ fd' = [fd EXCEPT ![f] = "file"]
    /\ UNCHANGED <<sock_fds, untold, fdRest>>

(* on_connect: a connect to any address but loopback tracks the socket, if *)
(* the map has room.  A datagram socket may be connected again.            *)
Connect(f, to) ==
    /\ Len(log) <= MaxFdLog /\ fd[f] # "file"
    /\ fd' = [fd EXCEPT ![f] = to]
    /\ sock_fds' = IF to = "remote" /\ (f \in sock_fds \/ Cardinality(sock_fds) < SockCap)
                   THEN sock_fds \cup {f} ELSE sock_fds
    /\ untold' = IF to = "local" /\ f \in sock_fds THEN untold \cup {f} ELSE untold \ {f}
    /\ UNCHANGED fdRest

(* on_close *)
Close(f) ==
    /\ Len(log) <= MaxFdLog /\ fd[f] # "free"
    /\ fd' = [fd EXCEPT ![f] = "free"]
    /\ sock_fds' = sock_fds \ {f} /\ untold' = untold \ {f}
    /\ UNCHANGED fdRest

(* close_range, dup2 over it, exec: the descriptor goes and no probe sees it. *)
CloseUnseen(f) ==
    /\ Len(log) <= MaxFdLog /\ fd[f] # "free"
    /\ fd' = [fd EXCEPT ![f] = "free"]
    /\ untold' = IF f \in sock_fds THEN untold \cup {f} ELSE untold
    /\ UNCHANGED <<sock_fds, fdRest>>

(* eb_handle_event, eb_stat_add *)
eb_handle_event ==
    /\ ring # <<>>
    /\ stats' = [bursts |-> stats.bursts + 1,
                 max |-> IF Head(ring) > stats.max THEN Head(ring) ELSE stats.max]
    /\ ring' = Tail(ring)
    /\ UNCHANGED <<st, h, drops, alerts, hist>>

Tick ==
    /\ clock < MaxTime
    /\ clock' = clock + 1
    /\ UNCHANGED <<fd, sock_fds, room, st, h, outVars, log, untold, stray, raced>>

Handler(t) ==
    \/ OpenSensitive(t) \/ Arm(t) \/ Prime(t)
    \/ \E n \in Sizes : SendTo(t, n) \/ \E f \in Fds : Write(t, f, n)
    \/ Check(t) \/ Load(t) \/ Add(t) \/ Emit(t) \/ Reset1(t) \/ Reset2(t)

Next ==
    \/ \E t \in Threads : Handler(t)
    \/ \E f \in Fds : Open(f) \/ Close(f) \/ CloseUnseen(f) \/ \E to \in {"remote", "local"} : Connect(f, to)
    \/ eb_handle_event \/ Tick

Spec == Init /\ [][Next]_vars

-----------------------------------------------------------------------------
(* Properties *)

TypeOK ==
    /\ clock \in 0 .. MaxTime /\ {room, raced} \subseteq BOOLEAN
    /\ fd \in [Fds -> {"free", "file", "remote", "local"}]
    /\ sock_fds \subseteq Fds /\ untold \subseteq Fds
    /\ \A t \in Threads : h[t].now \in 0 .. MaxTime
    /\ st.window_start \in 0 .. MaxTime /\ st.path_count \in 0 .. MaxLog
    /\ Len(ring) <= RingCap /\ drops \in Nat

Sent(i, j) == FoldLeft(LAMBDA s, e : s + e.n, 0, SubSeq(log, i, j))
Opens == {i \in DOMAIN log : log[i].op = "open"}

(* Whatever its threads do at once, a process is accused only within       *)
(* WINDOW of a sensitive open, and not of more bytes than it has asked to  *)
(* send; threads that do not meet are accused of exactly what was sent     *)
(* since some sensitive open in the window.                                *)
AlertsBacked ==
    \A k \in DOMAIN alerts :
        LET al == alerts[k]
            recentOpens == {i \in Opens : i <= al.after /\ al.now - log[i].at \in 0 .. WINDOW}
        IN  /\ recentOpens # {}
            /\ al.bytes <= Sent(1, al.after)
            /\ ~raced => \E i \in recentOpens : al.bytes = Sent(i, al.after)

(* The evidence: an alert reports as many sensitive opens as there were in *)
(* the RECENT time before it, up to the length of the ring, although slots *)
(* are reused and the count starts over with each window; when the ring    *)
(* has overflowed it says so.                                              *)
EvidenceExact ==
    ~raced => \A k \in DOMAIN alerts :
        LET al == alerts[k]
            n == Cardinality({i \in Opens : i <= al.after /\ al.now - log[i].at <= RECENT})
        IN  /\ al.recent = IF n < RING_LEN THEN n ELSE RING_LEN
            /\ n > RING_LEN => al.truncated

(* The opens that begin a window: the first, and the first after each one  *)
(* that lies more than WINDOW after the last beginning.                    *)
Begins[n \in 0 .. MaxLog] ==
    IF n = 0 THEN <<>>
    ELSE IF n \notin Opens THEN Begins[n - 1]
    ELSE IF Begins[n - 1] = <<>> \/ log[n].at - log[Last(Begins[n - 1])].at > WINDOW
         THEN Append(Begins[n - 1], n) ELSE Begins[n - 1]

(* A process with one thread at work that sends BYTE_THRESHOLD within      *)
(* WINDOW of the open that began its window is reported.  (The documented  *)
(* "within 30 seconds of the arming read" is only this much: a later open  *)
(* in the same window arms, but does not move the window.)                 *)
NoBurstMissed ==
    room /\ ~raced /\ (\A t \in Threads : At(t, "idle")) =>
        \A i \in ToSet(Begins[Len(log)]), j \in DOMAIN log :
            i < j /\ log[j].at - log[i].at <= WINDOW /\ Sent(i, j) >= BYTE_THRESHOLD
                => \E k \in DOMAIN alerts : alerts[k].after \in i .. j

(* Every alert raised is in the ring, in the summary or in the drop count, *)
(* and the summary has the largest of those it saw.                        *)
AlertsAccounted ==
    /\ Len(alerts) = Len(ring) + stats.bursts + drops
    /\ stats.bursts > 0 => \E k \in DOMAIN alerts : alerts[k].bytes = stats.max

(* Bytes written to a file, a pipe or a local socket are not counted, as   *)
(* long as the program closes its sockets with close() and does not        *)
(* connect a remote one to loopback.                                       *)
OnlySocketsCount == stray = 0
=============================================================================
