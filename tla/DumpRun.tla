------------------------------- MODULE DumpRun -------------------------------
(***************************************************************************)
(* The engines that follow the mappings of the target: lib, which reports  *)
(* each one, and dump, which writes the images of matching modules to      *)
(* files, on map, on exit or now.  Processes map and unmap modules while   *)
(* the tracer reads events, the maps file and memory at different moments. *)
(*                                                                         *)
(* A module occupies consecutive addresses, one per segment or filler.     *)
(* Layout[m] gives each one's file and offset; a filler has file "".  The  *)
(* last segment is the executable one, whose mapping raises the event.     *)
(***************************************************************************)
EXTENDS Integers, Sequences, FiniteSets, SequencesExt, FiniteSetsExt

CONSTANTS
  Pids,       \* process ids
  NAddrs,     \* addresses of a process
  Mods,       \* modules
  Layout,     \* [Mods -> Seq([path, off])]
  Basename,   \* [paths -> names]
  Matching,   \* paths and names that match a pattern of the command line
  Headers,    \* modules whose ELF header is readable in memory
  RingCap,    \* events the ring holds
  DoneCap,    \* length of done_bases
  CovCap,     \* length of cov
  CachePids, CacheNames, \* PATH_CACHE_PIDS, PATH_CACHE_NAMES
  Rooms,      \* possible numbers of entries realloc can give a list
  Modes,      \* subset of {"lib", "map", "exit", "now"}
  Places,     \* bound: the <<process, module, address>> of its mappings
  MaxOps      \* bound: mappings, unmappings and exits of the target

VARIABLES
  mode,    \* engine and its option
  room,    \* entries of g_pids and g_seen that memory allows
  pc,      \* "setup", "poll", "dump", "next", "walk", "done"
  mem,     \* mem[p][a]: the segment mapped there, or Free
  ring,    \* events not yet consumed
  noted,   \* g_pids
  seen,    \* g_seen
  cache,   \* path_cache: a sequence of [pid, names]
  cur,     \* the event in hand, with the path resolved for it
  todo,    \* processes still to be walked
  walk,    \* the walk under way: pid, snap, at, tried, cov, failed
  written, \* files written, in order
  ops,     \* operations of the target so far; numbers the mappings
  stopAt,  \* history: ops when polling ended
  moved,   \* history: the process in hand changed since its maps were read
  hidden,  \* history: mappings whose load base was found to be another's
  heard,   \* history: mapping events consumed
  passed,  \* history: the last event, if its mapping was in place and passed over
  line     \* history: path reported or matched for the last mapping event

vars == <<mode, room, pc, mem, ring, noted, seen, cache, cur, todo, walk,
          written, ops, stopAt, moved, hidden, heard, passed, line>>
target == <<mem, ring, ops>>
tracer == <<mode, room, pc, noted, seen, cache, cur, todo, walk, written,
            stopAt, hidden, heard, passed, line>>

Slots == 1..NAddrs
Free == [mod |-> "", k |-> 0, inst |-> 0]
Empty == [a \in Slots |-> Free]
NoEvent == [type |-> "none"]
NoLine == [name |-> "", path |-> "", remapped |-> FALSE]
NoWalk == [pid |-> 0, snap |-> Empty, at |-> 0, tried |-> <<>>, cov |-> <<>>,
           failed |-> {}]

PathOf(s) == IF s = Free THEN "" ELSE Layout[s.mod][s.k].path
OffOf(s) == Layout[s.mod][s.k].off
Filler(s) == PathOf(s) = ""
NSegs(m) == Len(Layout[m])

Init ==
  /\ mode \in Modes
  /\ room \in IF mode \in {"map", "exit"} THEN Rooms ELSE {Max(Rooms)}
  /\ pc = "setup"
  /\ mem = [p \in Pids |-> Empty]
  /\ ring = <<>> /\ noted = <<>> /\ seen = <<>> /\ cache = <<>>
  /\ cur = NoEvent /\ todo = <<>> /\ walk = NoWalk /\ written = <<>>
  /\ ops = 0 /\ stopAt = 0 /\ moved = FALSE
  /\ hidden = {} /\ heard = {} /\ passed = NoEvent /\ line = NoLine

(***************************************************************************)
(* The target.                                                             *)
(***************************************************************************)
\* What the target does after the tracer has gone changes nothing.
MayAct == ops < MaxOps /\ pc # "done"
InHand(p) == walk.pid = p \/ (cur # NoEvent /\ cur.pid = p)
Traced == mode # "now" /\ pc \in {"poll", "dump", "next", "walk"}

\* Ring reservation: without room the event is lost, and neither engine counts it.
Emit(e) == ring' = IF Traced /\ Len(ring) < RingCap THEN Append(ring, e) ELSE ring

\* on_uprobe_mmap, at the executable segment of a newly mapped module.
Maps(p, m, a) ==
  /\ MayAct
  /\ \A i \in 1..NSegs(m) : mem[p][a + i - 1] = Free
  /\ mem' = [mem EXCEPT ![p] = [b \in Slots |->
               IF b \in a..(a + NSegs(m) - 1)
                 THEN [mod |-> m, k |-> b - a + 1, inst |-> ops + 1]
                 ELSE mem[p][b]]]
  /\ ops' = ops + 1
  /\ Emit([type |-> "map", pid |-> p, start |-> a + NSegs(m) - 1, inst |-> ops + 1,
           name |-> Basename[Layout[m][NSegs(m)].path]])
  /\ moved' = (moved \/ InHand(p))
  /\ UNCHANGED tracer

\* on_uprobe_munmap, for a whole module.
Unmaps(p, a) ==
  /\ MayAct
  /\ mem[p][a].k = 1
  /\ mem' = [mem EXCEPT ![p] = [b \in Slots |->
               IF mem[p][b].inst = mem[p][a].inst THEN Free ELSE mem[p][b]]]
  /\ ops' = ops + 1
  /\ Emit([type |-> "unmap", pid |-> p, inst |-> mem[p][a].inst])
  /\ moved' = (moved \/ InHand(p))
  /\ UNCHANGED tracer

\* A process exits; its id may be used again.  No event is raised.
Exits(p) ==
  /\ MayAct
  /\ mem[p] # Empty
  /\ mem' = [mem EXCEPT ![p] = Empty]
  /\ ops' = ops + 1
  /\ moved' = (moved \/ InHand(p))
  /\ UNCHANGED <<tracer, ring>>

(***************************************************************************)
(* The path of an event: the maps file first, then a cache by base name.   *)
(***************************************************************************)
\* find_path_in_maps: the path of the line that begins at start, if any.
find_path_in_maps(p, start) ==
  IF mem[p][start] = Free THEN {} ELSE {PathOf(mem[p][start])}

path_cache_find_pid(p) == {i \in DOMAIN cache : cache[i].pid = p}

\* path_cache_put: a new process or name is left out when its table is full.
path_cache_put(p, path) ==
  LET name == Basename[path]
      i == path_cache_find_pid(p)
      c == IF i # {} \/ Len(cache) >= CachePids THEN cache
           ELSE Append(cache, [pid |-> p, names |-> <<>>])
  IN [j \in DOMAIN c |->
        IF c[j].pid # p THEN c[j]
        ELSE LET n == c[j].names
                 old == {x \in DOMAIN n : n[x].name = name}
                 e == [name |-> name, path |-> path]
             IN [c[j] EXCEPT !.names =
                   IF old # {} THEN [n EXCEPT ![CHOOSE x \in old : TRUE] = e]
                   ELSE IF Len(n) < CacheNames THEN Append(n, e) ELSE n]]

\* Plausible bug: the names are not compared.
path_cache_lookup_Any(p, name) ==
  {e.path : e \in UNION {Range(cache[i].names) : i \in path_cache_find_pid(p)}}

path_cache_lookup(p, name) ==
  {e.path : e \in {x \in UNION {Range(cache[i].names) : i \in path_cache_find_pid(p)} :
                     x.name = name}}

\* anubee_libtrace_resolve_path: {} is the return of -1.
resolve_path(e) ==
  IF find_path_in_maps(e.pid, e.start) # {} THEN find_path_in_maps(e.pid, e.start)
  ELSE path_cache_lookup(e.pid, e.name)

(***************************************************************************)
(* Load base and image.                                                    *)
(***************************************************************************)
\* anubee_module_base_idx on the line of s: back over the line of the same
\* path while the offset falls, fillers skipped.
load_base_of(s) ==
  LET prev(a) == {b \in 1..(a - 1) : s[b] # Free /\ ~Filler(s[b])}
      step(a) == IF Filler(s[a]) \/ prev(a) = {} THEN a
                 ELSE LET j == Max(prev(a))
                      IN IF PathOf(s[j]) = PathOf(s[a]) /\ OffOf(s[j]) < OffOf(s[a])
                           THEN j ELSE a
      base[a \in Slots] == IF step(a) = a THEN a ELSE base[step(a)]
  IN base

\* dump_one reads memory at base: it needs the ELF header to be there.
HasHeader(p, base) == mem[p][base].k = 1 /\ mem[p][base].mod \in Headers
Image(p, base, start, label) ==
  [pid |-> p, start |-> start, inst |-> mem[p][base].inst, mod |-> mem[p][base].mod,
   label |-> label, moved |-> moved]

(***************************************************************************)
(* Setup and polling.                                                      *)
(***************************************************************************)
\* dump_setup or lib_setup; with --now nothing is attached and the targets of
\* -p are walked at once, in their order.
Setup ==
  /\ pc = "setup"
  /\ \/ /\ mode = "now"
        /\ pc' = "next" /\ todo' = SetToSeq(Pids) /\ stopAt' = ops
     \/ /\ mode # "now"
        /\ pc' = "poll" /\ UNCHANGED <<todo, stopAt>>
     \/ pc' = "done" /\ UNCHANGED <<todo, stopAt>>    \* setup or launch fails
  /\ UNCHANGED <<mode, room, noted, seen, cache, cur, walk, written, moved, hidden,
                 heard, passed, line, target>>

\* A list grows by realloc; without memory the new entry is not recorded.
Added(list, x) == IF Len(list) < room THEN Append(list, x) ELSE list

\* note_pid.
note_pid(p) == IF p \in Range(noted) THEN noted ELSE Added(noted, p)

\* seen_add: TRUE when the pair is newly recorded.
seen_add(p, start) == <<p, start>> \notin Range(seen) /\ Len(seen) < room

Consume == pc = "poll" /\ ring # <<>> /\ ring' = Tail(ring)

\* An unmapping: lib reports it, dump ignores it.
HandleUnmap ==
  /\ Consume
  /\ Head(ring).type = "unmap"
  /\ UNCHANGED <<mode, room, pc, mem, noted, seen, cache, cur, todo, walk, written,
                 ops, stopAt, moved, hidden, heard, passed, line>>

\* dump on exit: remember the process.
HandleNote ==
  /\ Consume
  /\ mode = "exit" /\ Head(ring).type = "map"
  /\ noted' = note_pid(Head(ring).pid)
  /\ heard' = heard \cup {Head(ring)}
  /\ UNCHANGED <<mode, room, pc, mem, seen, cache, cur, todo, walk, written, ops,
                 stopAt, moved, hidden, passed, line>>

Resolved(e, full) ==
  /\ cache' = IF find_path_in_maps(e.pid, e.start) # {}
                THEN path_cache_put(e.pid, full) ELSE cache
  /\ heard' = heard \cup {e}
  /\ line' = [name |-> e.name, path |-> full,
               remapped |-> mem[e.pid][e.start].inst \notin {0, e.inst}]

Full(e) == IF resolve_path(e) = {} THEN e.name ELSE CHOOSE x \in resolve_path(e) : TRUE

\* lib: report the mapping under its path.
HandleLib ==
  /\ Consume
  /\ mode = "lib" /\ Head(ring).type = "map"
  /\ Resolved(Head(ring), Full(Head(ring)))
  /\ UNCHANGED <<mode, room, pc, mem, noted, seen, cur, todo, walk, written, ops,
                 stopAt, moved, hidden, passed>>

InPlace(e) == /\ mem[e.pid][e.start].inst = e.inst
              /\ mem[e.pid][e.start].mod \in Headers
              /\ Full(e) \in Matching

\* dump on map: resolve and match, and pass over an address dumped before.
HandleMatch ==
  /\ Consume
  /\ mode = "map" /\ Head(ring).type = "map"
  /\ LET e == Head(ring)
         new == Full(e) \in Matching /\ seen_add(e.pid, e.start)
     IN /\ Resolved(e, Full(e))
        /\ seen' = IF new THEN Append(seen, <<e.pid, e.start>>) ELSE seen
        /\ cur' = IF new THEN [e EXCEPT !.name = Full(e)] ELSE NoEvent
        /\ pc' = IF new THEN "dump" ELSE "poll"
        /\ passed' = IF ~new /\ InPlace(e) THEN e ELSE NoEvent
  /\ moved' = FALSE
  /\ UNCHANGED <<mode, room, mem, noted, todo, walk, written, ops, stopAt, hidden>>

\* dump_one_at reads the maps again, takes the load base of the line at the
\* event's address and dumps from there.
DumpAt ==
  /\ pc = "dump"
  /\ LET base == load_base_of(mem[cur.pid])[cur.start]
         ok == mem[cur.pid][cur.start] # Free /\ HasHeader(cur.pid, base)
     IN written' = IF ok THEN Append(written, Image(cur.pid, base, cur.start, cur.name))
                   ELSE written
  /\ pc' = "poll" /\ cur' = NoEvent /\ moved' = FALSE
  /\ UNCHANGED <<mode, room, mem, ring, noted, seen, cache, todo, walk, ops, stopAt,
                 hidden, heard, passed, line>>

\* A signal or a poll error ends the loop; events still in the ring are lost.
Stop ==
  /\ pc = "poll"
  /\ stopAt' = ops
  /\ pc' = IF mode = "exit" THEN "next" ELSE "done"
  /\ todo' = IF mode = "exit" THEN noted ELSE <<>>
  /\ UNCHANGED <<mode, room, noted, seen, cache, cur, walk, written, moved, hidden,
                 heard, passed, line, target>>

(***************************************************************************)
(* dump_walk_pid_modules: one copy of the maps, then module after module.  *)
(***************************************************************************)
OpenWalk ==
  /\ pc = "next" /\ todo # <<>>
  /\ LET p == Head(todo) IN
       /\ walk' = [NoWalk EXCEPT !.pid = p, !.snap = mem[p], !.at = 1]
       /\ hidden' = hidden \cup
            {mem[p][a].inst : a \in {b \in Slots : /\ mem[p][b].k = 1
                                                   /\ load_base_of(mem[p])[b] # b}}
  /\ todo' = Tail(todo)
  /\ pc' = "walk" /\ moved' = FALSE
  /\ UNCHANGED <<mode, room, noted, seen, cache, cur, written, stopAt, heard, passed,
                 line, target>>

\* Plausible bug: only the bases that were written are kept.
done_bases_Written ==
  {walk.tried[i] : i \in 1..Min({DoneCap, Len(walk.tried)})} \ walk.failed

\* The bases kept in done_bases: those of the first DoneCap attempts.
done_bases == {walk.tried[i] : i \in 1..Min({DoneCap, Len(walk.tried)})}

Covered(base) == \E i \in DOMAIN walk.cov : base \in walk.cov[i][1]..(walk.cov[i][2] - 1)

\* One line of the copy.  The file is written from memory as it is by now.
WalkLine ==
  /\ pc = "walk" /\ walk.at \in Slots
  /\ LET s == walk.snap[walk.at]
         base == load_base_of(walk.snap)[walk.at]
         try == ~Filler(s) /\ PathOf(s) \in Matching /\ base \notin done_bases
                /\ ~Covered(base)
         ok == try /\ HasHeader(walk.pid, base)
         end == base + NSegs(mem[walk.pid][base].mod)
     IN /\ walk' = [walk EXCEPT
             !.at = walk.at + 1,
             !.tried = IF try THEN Append(@, base) ELSE @,
             !.cov = IF ok /\ Len(@) < CovCap THEN Append(@, <<base, end>>) ELSE @,
             !.failed = IF try /\ ~ok THEN @ \cup {base} ELSE @]
        /\ written' = IF ok THEN Append(written, Image(walk.pid, base, 0, PathOf(s)))
                      ELSE written
  /\ UNCHANGED <<mode, room, pc, noted, seen, cache, cur, todo, stopAt, moved, hidden,
                 heard, passed, line, target>>

CloseWalk ==
  /\ pc = "walk" /\ walk.at = NAddrs + 1
  /\ walk' = NoWalk /\ pc' = "next" /\ moved' = FALSE
  /\ UNCHANGED <<mode, room, noted, seen, cache, cur, todo, written, stopAt, hidden,
                 heard, passed, line, target>>

Finish ==
  /\ pc = "next" /\ todo = <<>>
  /\ pc' = "done"
  /\ UNCHANGED <<mode, room, noted, seen, cache, cur, todo, walk, written, stopAt,
                 moved, hidden, heard, passed, line, target>>

Next ==
  \/ \E x \in Places : Maps(x[1], x[2], x[3])
  \/ \E p \in Pids, a \in Slots : Unmaps(p, a)
  \/ \E p \in Pids : Exits(p)
  \/ Setup \/ HandleUnmap \/ HandleNote \/ HandleLib \/ HandleMatch \/ DumpAt \/ Stop
  \/ OpenWalk \/ WalkLine \/ CloseWalk \/ Finish

Spec == Init /\ [][Next]_vars

(***************************************************************************)
(* Properties.                                                             *)
(***************************************************************************)

\* The lists and tables stay within their capacities and the program counter
\* agrees with what is in hand.
TypeOK ==
  /\ Len(ring) <= RingCap
  /\ Len(noted) <= room /\ Len(seen) <= room
  /\ Len(cache) <= CachePids /\ \A i \in DOMAIN cache : Len(cache[i].names) <= CacheNames
  /\ Len(walk.cov) <= CovCap
  /\ (cur # NoEvent) <=> pc = "dump"
  /\ (walk # NoWalk) <=> pc = "walk"

\* The path that lib reports and dump on map matches belongs to a file of the
\* event's own base name, whether it came from the maps, from the cache or from
\* the event, except when another module has been mapped at the address since.
PathOfEvent ==
  line.remapped \/ line.path = line.name \/ Basename[line.path] = line.name

\* A file written by dump is named after the path its contents were mapped from,
\* as long as the process did not change between the reading of its maps and
\* the reading of its memory.
LabelTrue ==
  \A i \in DOMAIN written :
    written[i].moved \/ written[i].label = Layout[written[i].mod][1].path

\* A walk attempts a module again (dump_walk_pid_modules calls fn twice for one
\* base) only when the base came too late for done_bases and, if it was written,
\* too late for the list of covered ranges as well.
WalkOnce ==
  \A i, j \in DOMAIN walk.tried :
    (i < j /\ walk.tried[i] = walk.tried[j]) =>
      /\ i > DoneCap
      /\ walk.tried[i] \in walk.failed \/ Len(walk.cov) = CovCap

\* dump on exit and --now: a matching module with its header in memory that was
\* mapped when polling ended and still is at the end has been written, if any
\* mapping event of its process was consumed and memory sufficed to note the
\* process (or it was named by -p), unless its load base was taken for that of a
\* lower module of the same file.
ExitDumpsMatching ==
  pc = "done" /\ mode \in {"exit", "now"} =>
    \A p \in Pids, a \in Slots :
      LET s == mem[p][a] IN
      (/\ s.k = 1 /\ s.inst <= stopAt /\ s.mod \in Headers
       /\ PathOf(s) \in Matching
       /\ s.inst \notin hidden
       /\ \/ mode = "now"
          \/ (\E e \in heard : e.pid = p) /\ (p \in Range(noted) \/ Len(noted) < room)) =>
         \E i \in DOMAIN written : written[i].inst = s.inst

\* dump on map writes at most one file for an address of a process.
OnMapOnce ==
  mode = "map" =>
    \A i, j \in DOMAIN written :
      (written[i].pid = written[j].pid /\ written[i].start = written[j].start) => i = j

\* dump on map passes over a matching module that is in place only if an earlier
\* mapping event of the same process named the same address, or memory ran out.
OnMapPassedOver ==
  passed = NoEvent
  \/ \E f \in heard : /\ f.pid = passed.pid /\ f.start = passed.start
                      /\ f.inst < passed.inst
  \/ Len(seen) = room

==============================================================================
