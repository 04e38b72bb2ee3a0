----------------------------- MODULE FeedMath ------------------------------
(***************************************************************************)
(* From the lines of a feed to the interval set of the kernel: which       *)
(* entries are kept (core.validateFeedEntries), how they become disjoint   *)
(* ranges (mergeRanges), the netlink calls that carry them in bounded      *)
(* pieces (addFeedElements), the binary search the lockout verdict asks    *)
(* (overlapsAny).                                                          *)
(*                                                                         *)
(* An address is a number: 0..Top4 is IPv4 and Base6..Top6 IPv6, which     *)
(* netip.Addr.Compare orders after it.  A prefix is its first address and  *)
(* the number of its host bits, IPv6 being recognised by the address.      *)
(***************************************************************************)
EXTENDS Integers, FiniteSets, Sequences, FiniteSetsExt, SequencesExt

CONSTANTS
    Width4, Base6, Width6,  \* the widths of the two families, and where the second begins
    NonGlobal4,             \* nonGlobalV4: prefixes
    Global6, Doc6,          \* globalV6 and docV6: prefixes
    MaxHost4, MaxHost6,     \* host bits a feed's prefix may have (shared.FeedMaxBits)
    PerChunk,               \* ranges in one netlink call
    Submissions,            \* what a feed may send: sequences of prefixes
    AllowEntries            \* entries of the allowlist: prefixes

Top4 == 2^Width4 - 1
Top6 == Base6 + 2^Width6 - 1
Addr4 == 0..Top4
Addr6 == Base6..Top6
Addrs == Addr4 \cup Addr6
None == -1

VARIABLES
    sent,       \* the entries of the last update
    kept,       \* those validateFeedEntries kept: a sequence of prefixes
    ranges,     \* the merged ranges of the store
    queue,      \* the ranges not yet handed to the kernel
    elements,   \* the interval set
    refused     \* whether the kernel refused an element

feedMathVars == <<sent, kept, ranges, queue, elements, refused>>

-----------------------------------------------------------------------------
(* Prefixes. *)

Is6(a) == a >= Base6
LastAddr(p) == p.addr + 2^p.host - 1
Covers(p) == p.addr..LastAddr(p)
Overlaps(p, q) == p.addr <= LastAddr(q) /\ q.addr <= LastAddr(p)
Within(p, q) == p.host <= q.host /\ p.addr \in Covers(q)

EntirelyNonGlobal(p) ==
    IF Is6(p.addr) THEN ~Overlaps(Global6, p) \/ Within(p, Doc6)
    ELSE \E n \in NonGlobal4 : Within(p, n)

IsGlobal(p) ==
    IF Is6(p.addr) THEN Within(p, Global6) /\ ~Overlaps(Doc6, p)
    ELSE \A n \in NonGlobal4 : ~Overlaps(n, p)

TooBroad(p) == p.host > (IF Is6(p.addr) THEN MaxHost6 ELSE MaxHost4)

\* One entry too broad, among those that are not private throughout, refuses
\* the whole update; what touches a private network is left out.
Accepted(entries) == \A i \in DOMAIN entries : EntirelyNonGlobal(entries[i]) \/ ~TooBroad(entries[i])
ValidateFeedEntries(entries) ==
    LET set == {p \in ToSet(entries) : ~EntirelyNonGlobal(p) /\ IsGlobal(p)}
    IN  SetToSortSeq(set, LAMBDA p, q : p.addr < q.addr \/ (p.addr = q.addr /\ p.host > q.host))

-----------------------------------------------------------------------------
(* Ranges. *)

\* netip.Addr.Next: nothing follows the top of a family.
NextAddr(a) == IF a \in {Top4, Top6} THEN None ELSE a + 1

\* Mutant: a range inside the last one shortens it.
BugExtends(last, r) ==
    IF r.from <= last.to \/ r.from = NextAddr(last.to) THEN {[last EXCEPT !.to = r.to]} ELSE {}
\* The range that takes r into the last one, if it can.
Extends(last, r) ==
    IF r.from <= last.to \/ r.from = NextAddr(last.to)
    THEN {[last EXCEPT !.to = IF r.to > last.to THEN r.to ELSE last.to]} ELSE {}

MergeRanges(ps) ==
    LET sorted == SetToSortSeq({[from |-> p.addr, to |-> LastAddr(p)] : p \in ToSet(ps)},
                               LAMBDA a, b : a.from < b.from \/ (a.from = b.from /\ a.to < b.to))
        Merge(out, r) ==
            IF out # <<>> /\ Extends(Last(out), r) # {}
            THEN Append(Front(out), CHOOSE x \in Extends(Last(out), r) : TRUE)
            ELSE Append(out, r)
    IN  FoldLeft(Merge, <<>>, sorted)

SplitFamilies(rs) ==
    LET i == Cardinality({j \in DOMAIN rs : ~Is6(rs[j].from)})
    IN  <<SubSeq(rs, 1, i), SubSeq(rs, i + 1, Len(rs))>>

\* A range to the top of its family has no end element.
RangeElements(rs) ==
    UNION {{[key |-> r.from, end |-> FALSE]}
           \cup (IF NextAddr(r.to) = None THEN {} ELSE {[key |-> NextAddr(r.to), end |-> TRUE]}) :
           r \in ToSet(rs)}

\* sort.Search finds the first range that does not end before r.
OverlapsAny(rs, r) ==
    LET i == SelectInSeq(rs, LAMBDA x : x.to >= r.from) IN i # 0 /\ rs[i].from <= r.to

Family(rs, a) == SplitFamilies(rs)[IF Is6(a) THEN 2 ELSE 1]
FeedContains(rs, a) == OverlapsAny(Family(rs, a), [from |-> a, to |-> a])
AllowlistOverlap(rs, p) == OverlapsAny(Family(rs, p.addr), [from |-> p.addr, to |-> LastAddr(p)])

-----------------------------------------------------------------------------
(* The kernel's interval set: an address is in it when the nearest element *)
(* at or below it, within the family, starts an interval.  An element whose *)
(* key is taken is refused, and the whole transaction with it.             *)

InSet(es, a) ==
    LET below == {e \in es : e.key <= a /\ Is6(e.key) = Is6(a)}
    IN  below # {} /\ ~(CHOOSE e \in below : \A x \in below : x.key <= e.key).end
Clash(es, new) == \/ \E e \in es, x \in new : e.key = x.key
                  \/ \E x, y \in new : x # y /\ x.key = y.key

-----------------------------------------------------------------------------
(* An update: the entries are validated, and handed over chunk by chunk.   *)

Update(entries) ==
    /\ sent' = entries
    /\ IF Accepted(entries)
       THEN /\ kept' = ValidateFeedEntries(entries)
            /\ ranges' = MergeRanges(kept')
            /\ queue' = ranges'
       ELSE UNCHANGED <<kept, ranges, queue>>
    /\ UNCHANGED <<elements, refused>>

Chunk(rs) ==
    LET n == IF PerChunk < Len(rs) THEN PerChunk ELSE Len(rs)
    IN  [now |-> SubSeq(rs, 1, n), later |-> SubSeq(rs, n + 1, Len(rs))]

\* SetAddElements, of one family at a time.
AddFeedElements ==
    /\ queue # <<>>
    /\ LET split == SplitFamilies(queue)
           first == IF split[1] # <<>> THEN split[1] ELSE split[2]
           rest  == IF split[1] # <<>> THEN split[2] ELSE <<>>
           new   == RangeElements(Chunk(first).now)
       IN  /\ queue' = Chunk(first).later \o rest
           /\ refused' = (refused \/ Clash(elements, new))
           /\ elements' = elements \cup new
    /\ UNCHANGED <<sent, kept, ranges>>

FeedMathInit ==
    sent = <<>> /\ kept = <<>> /\ ranges = <<>> /\ queue = <<>> /\ elements = {} /\ refused = FALSE
FeedMathNext == (sent = <<>> /\ \E entries \in Submissions : Update(entries)) \/ AddFeedElements
FeedMathSpec == FeedMathInit /\ [][FeedMathNext]_feedMathVars

-----------------------------------------------------------------------------

Listed == UNION {Covers(p) : p \in ToSet(kept)}
\* Once the last piece is handed over the kernel's set holds exactly the
\* addresses of the entries that were kept, and no element was refused on the
\* way: nested, adjacent and overlapping prefixes, the first and the last
\* address of a family included; and the answers made from the stored ranges
\* agree with it, for an address and for an allowlist entry (mergeRanges,
\* rangeElements, addFeedElements, FeedStore.Contains, AllowlistOverlap).
SetIsTheList ==
    /\ ~refused /\ (queue = <<>> => \A a \in Addrs : InSet(elements, a) <=> a \in Listed)
    /\ \A a \in Addrs : FeedContains(ranges, a) <=> a \in Listed
    /\ \A p \in AllowEntries : AllowlistOverlap(ranges, p) <=> Covers(p) \cap Listed # {}
=============================================================================
