------------------------------- MODULE MCLibs -------------------------------
(***************************************************************************)
(* The components that follow what the target maps and calls: the library  *)
(* filter of syscalls, lib and dump, and the probe targets of funcs and    *)
(* correlate. A behaviour is one of the chosen component; the others have  *)
(* no state.                                                               *)
(***************************************************************************)
EXTENDS MCLibFilter

VARIABLES part,   \* the component that runs in this behaviour
          d_mode, d_room, d_pc, d_mem, d_ring, d_noted, d_seen, d_cache, d_cur,
          d_todo, d_walk, d_written, d_ops, d_stopAt, d_moved, d_hidden, d_heard,
          d_passed, d_line,
          p_mode, p_targets, p_pc, p_space, p_ring, p_scanning, p_page, p_work,
          p_slots, p_count, p_links, p_queue, p_hash, p_out, p_ops, p_calls,
          p_missed, p_failed, p_held

(* Two modules of one apk, one with an anonymous part, and two of one name *)
(* in different directories.                                              *)
MCMods == {"A", "B", "C", "D"}
MCSeg(p, o) == [path |-> p, off |-> o]
MCLayout == [A |-> <<MCSeg("apk", 1), MCSeg("apk", 2)>>,
             B |-> <<MCSeg("apk", 3), MCSeg("apk", 4)>>,
             C |-> <<MCSeg("c/lx", 0), MCSeg("", 0), MCSeg("c/lx", 1)>>,
             D |-> <<MCSeg("d/lx", 0)>>]
MCBasename == [x \in {"apk", "c/lx", "d/lx", "", "lx"} |->
                 IF x \in {"c/lx", "d/lx"} THEN "lx" ELSE x]
MCPlaces == {x \in {1} \X MCMods \X (1 .. 4) : x[3] + Len(MCLayout[x[2]]) <= 5}
            \cup {<<2, "D", 1>>, <<2, "A", 1>>}
MCDumpModes == {"lib", "map", "exit", "now"}
MCProbeModes == {"funcs_p", "funcs_P", "corr_p", "corr_P"}

d_vars == <<d_mode, d_room, d_pc, d_mem, d_ring, d_noted, d_seen, d_cache, d_cur,
             d_todo, d_walk, d_written, d_ops, d_stopAt, d_moved, d_hidden, d_heard,
             d_passed, d_line>>
p_vars == <<p_mode, p_targets, p_pc, p_space, p_ring, p_scanning, p_page, p_work,
             p_slots, p_count, p_links, p_queue, p_hash, p_out, p_ops, p_calls,
             p_missed, p_failed, p_held>>

Dump == INSTANCE DumpRun WITH
       Pids <- {1, 2}, NAddrs <- 4, Mods <- MCMods, Layout <- MCLayout,
       Basename <- MCBasename, Matching <- {"apk", "c/lx"}, Headers <- MCMods,
       RingCap <- 2, DoneCap <- 1, CovCap <- 1, CachePids <- 1, CacheNames <- 1,
       Rooms <- {1, 3}, Modes <- MCDumpModes, Places <- MCPlaces, MaxOps <- 3,
       mode <- d_mode, room <- d_room, pc <- d_pc, mem <- d_mem, ring <- d_ring,
       noted <- d_noted, seen <- d_seen, cache <- d_cache, cur <- d_cur,
       todo <- d_todo, walk <- d_walk, written <- d_written, ops <- d_ops,
       stopAt <- d_stopAt, moved <- d_moved, hidden <- d_hidden, heard <- d_heard,
       passed <- d_passed, line <- d_line

Probe == INSTANCE ProbeTargets WITH
       NPages <- 2, Offsets <- [L |-> {1}, M |-> {1, 2}], RegistryCap <- 2,
       RingCap <- 1, Modes <- MCProbeModes, MaxOps <- 3, MaxCalls <- 1,
       mode <- p_mode, targets <- p_targets, pc <- p_pc, space <- p_space,
       ring <- p_ring, scanning <- p_scanning, page <- p_page, work <- p_work,
       slots <- p_slots, count <- p_count, links <- p_links, queue <- p_queue,
       hash <- p_hash, out <- p_out, ops <- p_ops, calls <- p_calls,
       missed <- p_missed, failed <- p_failed, held <- p_held

(* A component that does not run has no state. *)
NoDump ==
    /\ d_mode = 0 /\ d_room = 0 /\ d_pc = 0 /\ d_mem = 0 /\ d_ring = 0
    /\ d_noted = 0 /\ d_seen = 0 /\ d_cache = 0 /\ d_cur = 0 /\ d_todo = 0
    /\ d_walk = 0 /\ d_written = 0 /\ d_ops = 0 /\ d_stopAt = 0 /\ d_moved = 0
    /\ d_hidden = 0 /\ d_heard = 0 /\ d_passed = 0 /\ d_line = 0

NoProbe ==
    /\ p_mode = 0 /\ p_targets = 0 /\ p_pc = 0 /\ p_space = 0 /\ p_ring = 0
    /\ p_scanning = 0 /\ p_page = 0 /\ p_work = 0 /\ p_slots = 0 /\ p_count = 0
    /\ p_links = 0 /\ p_queue = 0 /\ p_hash = 0 /\ p_out = 0 /\ p_ops = 0
    /\ p_calls = 0 /\ p_missed = 0 /\ p_failed = 0 /\ p_held = 0

LibsInit ==
    /\ part \in {"filter", "dump", "probe"}
    /\ Init
    /\ part # "filter" => mode = AttachMode /\ lib[Main][1] = libscope
    /\ IF part = "dump" THEN Dump!Init ELSE NoDump
    /\ IF part = "probe" THEN Probe!Init ELSE NoProbe

LibsNext ==
    /\ \/ part = "filter" /\ Next /\ UNCHANGED <<d_vars, p_vars>>
       \/ part = "dump" /\ Dump!Next /\ UNCHANGED <<vars, p_vars>>
       \/ part = "probe" /\ Probe!Next /\ UNCHANGED <<vars, d_vars>>
    /\ UNCHANGED part

LibsSpec == LibsInit /\ [][LibsNext]_<<part, vars, d_vars, p_vars>>
-----------------------------------------------------------------------------
(* The properties of the other components; those of LibFilter keep their   *)
(* names.                                                                  *)
\* The tables, rings, caches and registries of the filter, of lib and dump, and of the
\* probe targets have their types and stay within their bounds.
TypesOK ==
    /\ TypeOK
    /\ part = "dump" => Dump!TypeOK
    /\ part = "probe" => Probe!TypeOK

\* A path that lib prints is one the event's process had at that address, and a dump's
\* label is the path of the module whose bytes it has.
DumpNamesTrue == part = "dump" => Dump!PathOfEvent /\ Dump!LabelTrue

\* dump writes every module it should, once: a walk writes no base twice and leaves no
\* matching module of a noted process out, --on-map writes a library of a process once
\* and passes over only what it has seen.
DumpedOnce ==
    part = "dump" => /\ Dump!WalkOnce /\ Dump!ExitDumpsMatching
                     /\ Dump!OnMapOnce /\ Dump!OnMapPassedOver

\* Every mapping is seen by the scan or by a map event, a counted target has its probe,
\* and an address that a lookup resolves is that of the target it returns.
ProbesComplete ==
    part = "probe" => Probe!NoGap /\ Probe!RegisteredIsProbed /\ Probe!AddressResolved
=============================================================================
