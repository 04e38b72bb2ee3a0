------------------------------ MODULE PacketLog ------------------------------
(***************************************************************************)
(* The core's packet log: a ring of the newest entries in memory and,      *)
(* where [packet_log] persist is set, a file that a restart reads back.    *)
(* The file is appended to and, past twice the ring's size, rewritten from *)
(* the ring by an atomic rename; a write that fails ends it for good.  An  *)
(* entry is its sequence number.                                           *)
(***************************************************************************)
EXTENDS Integers, Sequences, SequencesExt

CONSTANTS
  Capacity,  \* packet_log.entries
  LastEntry, \* bound: packets logged
  Boots      \* bound: restarts

ASSUME PacketLogAssumption == Capacity \in Nat /\ Capacity > 0 /\ LastEntry \in Nat /\ Boots \in Nat

VARIABLES
  persist,   \* packet_log.persist
  buf,       \* the ring's cells
  next,      \* where the next entry is written
  held,      \* how many are held
  seq,
  spill,     \* lines in the file, as the process counts them, or Off
  file,      \* packets.log
  boots,
  pushed     \* history: every entry put into this process's ring

packetVars == <<persist, buf, next, held, seq, spill, file, boots, pushed>>

Torn == 0    \* a line cut short
Off == -1
Limit == 2 * Capacity

\* PacketLog.at: the i-th newest entry.
At(i) == buf[(((next - 1 - i) % Capacity) + Capacity) % Capacity]

\* oldestFirst, and Query's order the other way round.
OldestFirst == [i \in 1..held |-> At(held - i)]

\* What push leaves of a ring after the entries es, as [buf, next, held].
Push(ring, e) ==
  [buf  |-> [ring.buf EXCEPT ![ring.next] = e],
   next |-> (ring.next + 1) % Capacity,
   held |-> IF ring.held < Capacity THEN ring.held + 1 ELSE ring.held]

SetRing(ring) == buf' = ring.buf /\ next' = ring.next /\ held' = ring.held

EmptyRing == [buf |-> [i \in 0..(Capacity - 1) |-> 0], next |-> 0, held |-> 0]

PacketInit ==
  /\ buf = EmptyRing.buf /\ next = 0 /\ held = 0 /\ seq = 0
  /\ persist \in BOOLEAN /\ spill = (IF persist THEN 0 ELSE Off) /\ file = <<>> /\ boots = 0 /\ pushed = <<>>

\* Faulty: the file is cut down to the entries before the one being logged.
BugRewriteFirst(e) == OldestFirst

\* The rewrite inside append takes the ring with the new entry already in it.
RewriteFrom(e) == Append(IF held < Capacity THEN OldestFirst ELSE Tail(OldestFirst), e)

\* Add and spillFile.append: the file grows, is rewritten past its limit, or
\* fails and is given up.
Add ==
  /\ seq < LastEntry /\ seq' = seq + 1
  /\ SetRing(Push([buf |-> buf, next |-> next, held |-> held], seq'))
  /\ pushed' = Append(pushed, seq')
  /\ \/ spill = Off /\ UNCHANGED <<spill, file>>
     \/ spill # Off /\ spill' = Off /\ UNCHANGED file
     \/ /\ spill # Off /\ spill < Limit
        /\ spill' = spill + 1 /\ file' = Append(file, seq')
     \/ /\ spill # Off /\ spill = Limit
        /\ \/ file' = RewriteFrom(seq') /\ spill' = Len(file')
           \/ file' = Append(file, seq') /\ spill' = Off   \* the rewrite failed
  /\ UNCHANGED <<boots, persist>>

\* Persist: every line that parses is pushed, the rest counted as discarded.
Replayed(lines) == FoldLeft(Push, EmptyRing, SelectSeq(lines, LAMBDA l : l # Torn))

SeqAfter(lines) ==
  FoldLeft(LAMBDA m, l : IF l # Torn /\ l > m THEN l ELSE m, 0, lines)

\* A restart, which may cut an append short: NewPacketLog, then Persist and its
\* rewrite, unless the file cannot be written.
Restart ==
  /\ boots < Boots /\ boots' = boots + 1 /\ UNCHANGED persist
  /\ \E cut \in IF spill # Off THEN {<<>>, <<Torn>>} ELSE {<<>>} :
       LET lines == IF persist THEN file \o cut ELSE <<>>
           ring == Replayed(lines)
       IN /\ SetRing(ring) /\ seq' = SeqAfter(lines)
          /\ pushed' = SelectSeq(lines, LAMBDA l : l # Torn)
          /\ \/ persist /\ spill' = ring.held /\ file' = OldestFirst'
             \/ spill' = Off /\ file' = lines

PacketNext == Add \/ Restart

-----------------------------------------------------------------------------
Newest(s, k) == SubSeq(s, Len(s) - k + 1, Len(s))
\* NewestKept: the page shows exactly the newest entries, in order, each once,
\* wherever the ring's index stands and whatever a restart replayed; and while
\* the file is kept it ends in those entries and stays within twice the ring
\* (at, push, Persist, spillFile.append, rewrite).
NewestKept ==
  /\ held = (IF Len(pushed) < Capacity THEN Len(pushed) ELSE Capacity)
  /\ OldestFirst = Newest(pushed, held)
  /\ \A i, j \in 1..held : i < j => OldestFirst[i] < OldestFirst[j]
  /\ spill # Off =>
       /\ spill = Len(file) /\ Len(file) <= Limit
       /\ Len(file) >= held /\ Newest(file, held) = OldestFirst
=============================================================================
