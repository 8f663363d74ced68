------------------------------- MODULE BTree -------------------------------
(***************************************************************************)
(* The B+ tree engine of db-storage-btree over its pager: a page file with *)
(* two mirrored superblocks, mutations executed one durable write at a     *)
(* time, faults between and inside the writes, and recovery by open.       *)
(* The handle is its active superblock; a poisoned handle and none at all  *)
(* are the same here, because only REOPEN leaves either and REOPEN starts  *)
(* from the path.  The page cache holds validated images of committed      *)
(* pages and is left out.                                                  *)
(*                                                                         *)
(* Fault model: a write that fails, or that a crash cuts short, leaves     *)
(* none, a part or all of its page; a completed sync is kept; reads may    *)
(* fail.  The read of a superblock that fails inside open is no error of   *)
(* open: choose_superblock takes the other slot, an older one too.         *)
(* NewestMayBeUnread says whether the newest superblock may be passed over *)
(* in this way; what holds only when it may not says so.                   *)
(***************************************************************************)
EXTENDS BTreeRewrite

CONSTANTS
    NoHandle,        \* no usable handle
    MaxGeneration,   \* the largest superblock generation (u64::MAX)
    MaxFaults,       \* bound: faults in a behaviour
    NewestMayBeUnread  \* open may fail to read the newest superblock

ASSUME MaxGenerationIsPositive == MaxGeneration \in Nat \ {0}
ASSUME FaultsAreBounded == MaxFaults \in Nat
ASSUME UnreadIsBoolean == NewestMayBeUnread \in BOOLEAN

VARIABLES
    file,      \* "none", "short" (creation cut off) or "formed"
    sb,        \* the two superblock slots
    pages,     \* the data pages physically in the file
    h,         \* the handle's active superblock, or NoHandle
    run,       \* {} or the mutation being executed
    acked,     \* ghost: the map of acknowledged mutations
    pending,   \* ghost: {} or the mutation in doubt
    faults     \* number of faults so far

disk == <<file, sb, pages>>
ghosts == <<acked, pending>>
vars == <<file, sb, pages, h, run, acked, pending, faults>>

Superblock(slot, gen, count, root) ==
    [slot |-> slot, gen |-> gen, count |-> count, root |-> root]
Initial(slot) == Superblock(slot, 0, FirstPage, RootNone)
Superblocks == [slot : {0, 1}, gen : 0 .. MaxGeneration, count : Nat, root : Nat]
ASSUME NoSuperblock == {Torn, NoHandle} \cap Superblocks = {}

TypeOK ==
    /\ file \in {"none", "short", "formed"}
    /\ sb \in [{0, 1} -> Superblocks \cup {Torn}]
    /\ DOMAIN pages = FirstPage .. FirstPage + Cardinality(DOMAIN pages) - 1
    /\ h \in Superblocks \cup {NoHandle}
    /\ \A r \in run : r.op \in Op
    /\ Cardinality(run) <= 1
    /\ acked \in Map
    /\ pending \in SUBSET Op
    /\ faults \in 0 .. MaxFaults
-----------------------------------------------------------------------------
MutSameSlot(slot) == slot
\* alternate_slot
Alternate(slot) == 1 - slot

\* The superblock that commits one more page, and the one that publishes a
\* root; both need a further generation.
Allocated(s) == Superblock(Alternate(s.slot), s.gen + 1, s.count + 1, s.root)
Rooted(s, root) ==
    IF root = s.root THEN s ELSE Superblock(Alternate(s.slot), s.gen + 1, s.count, root)

\* choose_superblock: the candidates, then the newest, slot 0 on a tie.
ValidSlots(s) == {i \in {0, 1} : s[i] # Torn}
Agree(a, b) ==
    /\ a.gen - b.gen \in {-1, 0, 1}
    /\ a.gen = b.gen => a.count = b.count /\ a.root = b.root
MutOldestSlot(s) ==
    CHOOSE i \in ValidSlots(s) :
        \A j \in ValidSlots(s) : s[i].gen < s[j].gen \/ (s[i].gen = s[j].gen /\ i <= j)
NewestSlot(s) ==
    CHOOSE i \in ValidSlots(s) :
        \A j \in ValidSlots(s) : s[i].gen > s[j].gen \/ (s[i].gen = s[j].gen /\ i <= j)
Chosen(s) == ValidSlots(s) # {} /\ (ValidSlots(s) = {0, 1} => Agree(s[0], s[1]))
Active(s) == s[NewestSlot(s)]

\* Pager::open accepts: everything committed is there, and at most one page
\* beyond it, which is truncated.
PagerOpens(s, p) ==
    /\ Chosen(s)
    /\ FirstPage .. Active(s).count - 1 \subseteq DOMAIN p
    /\ DOMAIN p \subseteq FirstPage .. Active(s).count

\* read_superblock of both slots: to choose_superblock a slot whose read fails
\* (seek, read_exact) is as unusable as one that does not validate.
Seen(lost) == [i \in {0, 1} |-> IF i \in lost THEN Torn ELSE sb[i]]
PassesNewest(lost) == Chosen(Seen(lost)) /\ NewestSlot(sb) \in lost
MayLose(lost) == PassesNewest(lost) => NewestMayBeUnread

TreeOn(s, p) == Tree(p, Active(s).count, Active(s).root)
Opens(s, p) == PagerOpens(s, p) /\ TreeOn(s, p).ok
-----------------------------------------------------------------------------
Init ==
    /\ file = "none"
    /\ sb = [i \in {0, 1} |-> Torn]
    /\ pages = << >>
    /\ h = NoHandle
    /\ run = {}
    /\ acked = EmptyMap /\ pending = {}
    /\ faults = 0

Fault ==
    /\ faults < MaxFaults
    /\ faults' = faults + 1

\* create_new on an absent path: both superblocks, one sync.
Create ==
    /\ file = "none"
    /\ file' = "formed"
    /\ sb' = [i \in {0, 1} |-> Initial(i)]
    /\ h' = Initial(0)
    /\ UNCHANGED <<pages, run, ghosts, faults>>

\* Creation is cut off: the path is taken by a file of less than two pages,
\* or by a complete one that nobody holds.
CreateInterrupted ==
    /\ file = "none" /\ Fault
    /\ \/ file' = "short" /\ UNCHANGED sb
       \/ file' = "formed" /\ sb' = [i \in {0, 1} |-> Initial(i)]
    /\ UNCHANGED <<pages, h, run, ghosts>>

\* open, or REOPEN of a usable or poisoned handle, in which the reads of the
\* lost slots fail: the tree of the newest superblock that was read.
Open(lost) ==
    /\ file = "formed" /\ run = {}
    /\ MayLose(lost)
    /\ IF lost = {} THEN UNCHANGED faults ELSE Fault
    /\ Opens(Seen(lost), pages)
    /\ pages' = Committed(pages, Active(Seen(lost)).count)
    /\ h' = Active(Seen(lost))
    /\ acked' = RowsMap(TreeOn(Seen(lost), pages).rows)
    /\ pending' = {}
    /\ UNCHANGED <<file, sb, run>>

\* open is refused; the tail may already have been truncated.
OpenRefused(lost) ==
    /\ file # "none" /\ run = {}
    /\ MayLose(lost)
    /\ IF lost = {} THEN UNCHANGED faults ELSE Fault
    /\ \/ file = "short" /\ lost = {} /\ UNCHANGED pages
       \/ /\ file = "formed" /\ ~Opens(Seen(lost), pages)
          /\ pages' = IF PagerOpens(Seen(lost), pages)
                      THEN Committed(pages, Active(Seen(lost)).count) ELSE pages
    /\ h' = NoHandle
    /\ UNCHANGED <<file, sb, run, ghosts>>

\* Another I/O error or a crash inside open, before or after the truncation.
OpenInterrupted(lost) ==
    /\ file = "formed" /\ run = {} /\ Fault
    /\ MayLose(lost)
    /\ PagerOpens(Seen(lost), pages)
    /\ pages' \in {pages, Committed(pages, Active(Seen(lost)).count)}
    /\ h' = NoHandle
    /\ UNCHANGED <<file, sb, run, ghosts>>

\* The process stops between calls, or drops the tree.
Close ==
    /\ h # NoHandle /\ run = {}
    /\ h' = NoHandle
    /\ UNCHANGED <<disk, run, ghosts, faults>>
-----------------------------------------------------------------------------
\* put or delete up to its first write.
Begin(op) ==
    /\ h # NoHandle /\ run = {}
    /\ op.val = Missing => Lookup(pages, h.root, op.key) # Missing
    /\ \E plan \in {Plan(pages, h.count, h.root, op)} :
          run' = {[op |-> op, writes |-> plan.st.writes, root |-> plan.root,
                   err |-> plan.st.err]}
    /\ UNCHANGED <<disk, h, ghosts, faults>>

\* delete of a missing key: acknowledged without a write.
DeleteMissing(k) ==
    /\ h # NoHandle /\ run = {}
    /\ Lookup(pages, h.root, k) = Missing
    /\ UNCHANGED vars

\* What the mutation does next.
Due(r) == Head(r.writes)
Recycles(r) == r.writes # << >> /\ Due(r).id < h.count
Appends(r) == r.writes # << >> /\ Due(r).id = h.count /\ h.count \notin DOMAIN pages
Allocates(r) == r.writes # << >> /\ h.count \in DOMAIN pages
MutNeverExhausted == FALSE
\* checked_add on the generation.
Exhausted == h.gen = MaxGeneration
Publishes(r) == r.writes = << >> /\ ~r.err

Written(p, w, image) == Applied(p, <<[id |-> w.id, page |-> image]>>)
Advance(r) == run' = {[r EXCEPT !.writes = Tail(@)]}

\* commit_recycled_page
Recycle(r) ==
    /\ Recycles(r)
    /\ pages' = Written(pages, Due(r), Due(r).page)
    /\ Advance(r)
    /\ UNCHANGED <<file, sb, h, ghosts, faults>>

MutAllocateFirst(r) ==
    /\ Appends(r) /\ ~Exhausted
    /\ sb' = [sb EXCEPT ![Allocated(h).slot] = Allocated(h)]
    /\ pages' = pages
    /\ UNCHANGED <<file, h, run, ghosts, faults>>
\* commit_new_page, first write: the page beyond the committed extent.
AppendPage(r) ==
    /\ Appends(r) /\ ~Exhausted
    /\ pages' = Written(pages, Due(r), Due(r).page)
    /\ UNCHANGED <<file, sb, h, run, ghosts, faults>>

\* commit_new_page, second write: the superblock that commits it.
Allocate(r) ==
    /\ Allocates(r)
    /\ sb' = [sb EXCEPT ![Allocated(h).slot] = Allocated(h)]
    /\ h' = Allocated(h)
    /\ Advance(r)
    /\ UNCHANGED <<file, pages, ghosts, faults>>

\* set_root, and the acknowledgement.
Publish(r) ==
    /\ Publishes(r) /\ ~Exhausted
    /\ sb' = [sb EXCEPT ![Rooted(h, r.root).slot] = Rooted(h, r.root)]
    /\ h' = Rooted(h, r.root)
    /\ run' = {}
    /\ acked' = Effect(acked, r.op)
    /\ UNCHANGED <<file, pages, pending, faults>>

\* The mutation returns an error without poisoning: the rewriting is
\* impossible, or no generation is left for the next superblock.
Refuse(r) ==
    /\ \/ r.writes = << >> /\ (r.err \/ Exhausted)
       \/ Appends(r) /\ Exhausted
    /\ run' = {}
    /\ UNCHANGED <<disk, h, ghosts, faults>>

\* A read fails between two writes: an error, and the handle stays usable.
ReadFails(r) ==
    /\ ~Allocates(r) /\ Fault
    /\ run' = {}
    /\ UNCHANGED <<disk, h, ghosts>>

\* The next write fails or a crash cuts it short: nothing, a part or all of
\* it is on disk, the handle is lost and the mutation is in doubt.
PageCut(r) ==
    /\ Recycles(r) \/ (Appends(r) /\ ~Exhausted)
    /\ \E image \in {Torn, Due(r).page} : pages' = Written(pages, Due(r), image)
    /\ UNCHANGED sb
SlotCut(next) ==
    /\ \E image \in {Torn, next} : sb' = [sb EXCEPT ![next.slot] = image]
    /\ UNCHANGED pages
Interrupt(r) ==
    /\ Fault
    /\ \/ PageCut(r)
       \/ Allocates(r) /\ SlotCut(Allocated(h))
       \/ Publishes(r) /\ ~Exhausted /\ SlotCut(Rooted(h, r.root))
       \/ UNCHANGED <<sb, pages>>
    /\ h' = NoHandle
    /\ run' = {}
    /\ pending' = {r.op}
    /\ UNCHANGED <<file, acked>>

Step(r) ==
    \/ Recycle(r) \/ AppendPage(r) \/ Allocate(r) \/ Publish(r)
    \/ Refuse(r) \/ ReadFails(r) \/ Interrupt(r)

Next ==
    \/ Create \/ CreateInterrupted
    \/ \E lost \in SUBSET {0, 1} :
          Open(lost) \/ OpenRefused(lost) \/ OpenInterrupted(lost)
    \/ Close
    \/ \E op \in Op : Begin(op)
    \/ \E k \in Keys : DeleteMissing(k)
    \/ \E r \in run : Step(r)

Spec == Init /\ [][Next]_vars
-----------------------------------------------------------------------------
\* Crash rule of the constitution ("Reopen must expose the complete old tree
\* or complete new tree"): at every point of every mutation, creation and
\* recovery, open accepts the file, and the tree it reads holds the
\* acknowledged map, or that map with the one mutation in doubt.  This and the
\* properties below need every open to read the newest superblock
\* (~NewestMayBeUnread); the read of the other slot may fail.
Recoverable ==
    IF file = "formed"
    THEN /\ Opens(sb, pages)
         /\ RowsMap(TreeOn(sb, pages).rows) \in
               {acked} \cup {Effect(acked, op) : op \in pending}
    ELSE acked = EmptyMap /\ pending = {} /\ h = NoHandle

\* A usable handle (active superblock, get): it is the superblock open would
\* choose, so reads and the next mutation start from what is durable; the
\* tree under it is the acknowledged map even in the middle of a mutation.
HandleIsDurable ==
    h # NoHandle =>
        /\ Active(sb) = h
        /\ RowsMap(Tree(pages, h.count, h.root).rows) = acked
        /\ pending = {}
        /\ run = {} => DOMAIN pages = FirstPage .. h.count - 1

\* docs/btree-page-format.md, Copy-on-write tree mutation: no write touches
\* a page that is reachable from the published root, overflow chains
\* included (commit_recycled_page, refresh_reusable_pages).
LivePages == IF file = "formed" /\ Opens(sb, pages) THEN TreeOn(sb, pages).refs ELSE {}
KeepsLivePages == \A id \in LivePages : id \in DOMAIN pages' /\ pages'[id] = pages[id]
LivePagesKept == [][KeepsLivePages]_vars

\* The B+ tree implements the contract of the laboratory: an acknowledged
\* mutation is kept, a refused one has no effect, and one whose write failed
\* is decided once, by recovery.
Kv == INSTANCE KvStore WITH store <- acked, usable <- h # NoHandle
RefinesKvStore == Kv!KvSpec

=============================================================================
