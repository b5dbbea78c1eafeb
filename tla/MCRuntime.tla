----------------------------- MODULE MCRuntime ------------------------------
(***************************************************************************)
(* The event queue, the trace coordinator and the mod dispatcher: the      *)
(* components in which threads hand data over and stop each other. A       *)
(* behaviour is one of the chosen component; the others stay in an         *)
(* initial state.                                                          *)
(***************************************************************************)
EXTENDS EvQueue

VARIABLES part,   \* the component that runs in this behaviour
          t_main, t_why, t_eng, t_poll, t_ring, t_queue, t_pushed, t_written,
          t_merged, t_g_stop, t_g_stop_count, t_g_drain_active, t_sig, t_warned,
          t_events,
          m_ans, m_out, m_pc, m_k, m_nrb, m_w, m_objs, m_skel, m_g_thread,
          m_poll_stop, m_live, m_ring, m_drops, m_jb, m_lines, m_torn, m_open,
          m_tally, m_summary, m_ring_drops, m_missed, m_stop, m_events

(* Records of one, two and three bytes; the worker's buffer holds two, so  *)
(* the third is oversized.  With 14 bytes the ring holds two frames at     *)
(* most and every push wraps at a different place.                         *)
MCRecs == {<<1>>, <<2, 3>>, <<4, 5, 6>>}

(* Two ring analyzers, a polling one alone, one of each, and one twice. *)
MCRequests == {<<"x", "y">>, <<"f">>, <<"f", "x">>, <<"f", "f">>}

t_vars == <<t_main, t_why, t_eng, t_poll, t_ring, t_queue, t_pushed, t_written,
             t_merged, t_g_stop, t_g_stop_count, t_g_drain_active, t_sig, t_warned,
             t_events>>
m_vars == <<m_ans, m_out, m_pc, m_k, m_nrb, m_w, m_objs, m_skel, m_g_thread,
             m_poll_stop, m_live, m_ring, m_drops, m_jb, m_lines, m_torn, m_open,
             m_tally, m_summary, m_ring_drops, m_missed, m_stop, m_events>>

Trace == INSTANCE TraceRun WITH
       Engines <- <<"syscalls", "funcs", "lib">>, Queued <- {"syscalls", "funcs"},
       Signals <- {"SIGINT", "SIGTERM"},
       MayFail <- {"setup", "launch", "spawn", "poll"}, QCap <- 1, MaxEvents <- 2,
       main <- t_main, why <- t_why, eng <- t_eng, poll <- t_poll, ring <- t_ring,
       queue <- t_queue, pushed <- t_pushed, written <- t_written,
       merged <- t_merged, g_stop <- t_g_stop, g_stop_count <- t_g_stop_count,
       g_drain_active <- t_g_drain_active, sig <- t_sig, warned <- t_warned,
       events <- t_events

Mod == INSTANCE ModRun WITH
       Names <- {"x", "y", "f", "s"}, Pollers <- {"f", "s"}, Requests <- MCRequests,
       RingCap <- 1, MaxNames <- 2, MaxEvents <- 2, ans <- m_ans, out <- m_out,
       pc <- m_pc, k <- m_k, nrb <- m_nrb, w <- m_w, objs <- m_objs, skel <- m_skel,
       g_thread <- m_g_thread, poll_stop <- m_poll_stop, live <- m_live,
       ring <- m_ring, drops <- m_drops, jb <- m_jb, lines <- m_lines,
       torn <- m_torn, open <- m_open, tally <- m_tally, summary <- m_summary,
       ring_drops <- m_ring_drops, missed <- m_missed, stop <- m_stop,
       events <- m_events

ASSUME TraceConstants == Trace!ConstantsOK

RuntimeInit ==
    /\ part \in {"queue", "trace", "mod"}
    /\ Init /\ Trace!Init /\ Mod!Init
    /\ part # "mod" => m_ans = <<"f">> /\ m_out

RuntimeNext ==
    /\ \/ part = "queue" /\ Next /\ UNCHANGED <<t_vars, m_vars>>
       \/ part = "trace" /\ Trace!Next /\ UNCHANGED <<vars, m_vars>>
       \/ part = "mod" /\ Mod!Next /\ UNCHANGED <<vars, t_vars>>
    /\ UNCHANGED part

(* The fairness of the component that runs *)
RuntimeFairness ==
    /\ WF_vars(part = "queue" /\ Worker) /\ WF_vars(part = "queue" /\ Teardown)
    /\ WF_t_vars(part = "trace" /\ Trace!Main)
    /\ \A k \in Trace!K : /\ WF_t_vars(part = "trace" /\ Trace!RunEnds(k))
                          /\ WF_t_vars(part = "trace" /\ Trace!Consume(k))
                          /\ WF_t_vars(part = "trace" /\ Trace!Write(k))
    /\ \A s \in {"SIGINT", "SIGTERM"} : WF_t_vars(part = "trace" /\ Trace!runtime_sig_handler(s))
    /\ WF_m_vars(part = "mod" /\ Mod!Dispatcher)
    /\ \A i \in 1 .. 2 : WF_m_vars(part = "mod" /\ i <= Mod!N /\ Mod!Poller(i))

RuntimeSpec ==
    RuntimeInit /\ [][RuntimeNext]_<<part, vars, t_vars, m_vars>> /\ RuntimeFairness
-----------------------------------------------------------------------------
(* The properties of TraceRun and ModRun; those of EvQueue keep their names *)
\* The queue's counters and bytes, the phases and queues of trace, and the fields of
\* mod's dispatcher, sink and analyzers have their types and stay within their bounds.
TypesOK ==
    /\ TypeOK
    /\ part = "trace" => Trace!TypeOK
    /\ part = "mod" => Mod!TypeOK

\* However trace ends by itself, no engine is left armed.
NothingLeftArmed == part = "trace" => Trace!NothingLeftArmed

\* An engine is torn down only when its run() is over and its queue is empty.
TornDownIdle == part = "trace" => Trace!TornDownIdle

\* The merged file has every record that the queues accepted.
MergedComplete == part = "trace" => Trace!MergedComplete

\* A second signal during a drain warns of what is lost.
AbortInDrainWarns == [][part = "trace" => Trace!AbortWarns]_t_vars

\* A signal ends the run of trace, and Ctrl-C the run of mod with every polling
\* thread joined.
StopEndsRun ==
    /\ part = "trace" => Trace!StopEndsRun
    /\ part = "mod" => Mod!StopEndsRun

\* A run of mod ends cleanly: after it, or a failed start, no object and no thread is
\* left; a summary reads statistics that nobody changes any more; the coverage record has
\* every drop until polling ended; with one writer every line is a whole record.
ModEndsClean ==
    part = "mod" => /\ Mod!NothingLeftBehind /\ Mod!SummaryFinal
                    /\ Mod!DropsReported /\ Mod!AloneRecordsWhole
=============================================================================
