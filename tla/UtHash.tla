------------------------------- MODULE UtHash -------------------------------
(***************************************************************************)
(* uthash.h, as far as the shields use it: HASH_FIND_PTR, HASH_ADD_PTR and *)
(* HASH_DEL on one thread's table.                                         *)
(*                                                                         *)
(* An entry is named by its key, the lock's address: a shield adds an      *)
(* entry only after it failed to find one with that key, and deletes only  *)
(* an entry it found.  An operation is one action, as the table is         *)
(* thread_local, except that the loop of HASH_EXPAND_BUCKETS takes a step  *)
(* for each entry, in which nothing else can happen to the table.          *)
(*                                                                         *)
(* The pointers of the two linked lists an entry is on, the one of its     *)
(* bucket and the one of all entries, are kept as they are in the code;    *)
(* those of an entry outside the table are NULL here.                      *)
(***************************************************************************)
EXTENDS Integers, FiniteSets

CONSTANTS
    Entries,                    \* addresses of locks
    NULL,
    hashv,                      \* the hash value of each entry
    HASH_INITIAL_NUM_BUCKETS,
    HASH_BKT_CAPACITY_THRESH,
    MallocFails                 \* TRUE: malloc may return NULL

ASSUME HashAssumption ==
    /\ IsFiniteSet(Entries)
    /\ NULL \notin Entries
    /\ hashv \in [Entries -> Nat]
    /\ HASH_INITIAL_NUM_BUCKETS \in Nat \ {0}
    /\ HASH_BKT_CAPACITY_THRESH \in Nat \ {0, 1}
    /\ MallocFails \in BOOLEAN

VARIABLES
    head,       \* first entry in app order, NULL when there is no table
    tail,       \* last entry in app order
    next, prev, \* the list of all entries, in app order
    num_buckets,
    buckets,
    hh_next, hh_prev,   \* the lists of the buckets
    num_items,
    ideal_chain_maxlen, nonideal_items, ineff_expands, noexpand,
    expanding,          \* in HASH_EXPAND_BUCKETS
    new_buckets, bkt_i, thh,    \* its locals
    exited              \* uthash_fatal was called
\* Without a table its fields are 0, and so are nonideal_items and the locals
\* of HASH_EXPAND_BUCKETS outside of it.

loopVars == << new_buckets, bkt_i, thh, nonideal_items >>

vars ==
    << head, tail, next, prev, num_buckets, buckets, hh_next, hh_prev,
       num_items, ideal_chain_maxlen, ineff_expands, noexpand, expanding,
       loopVars, exited >>

Pointers == Entries \cup {NULL}
Links == [Entries -> Pointers]
NoLinks == [e \in Entries |-> NULL]

-----------------------------------------------------------------------------
(* hashv & (num_bkts - 1), num_bkts a power of two.                        *)
ToBucket(e, num_bkts) == hashv[e] % num_bkts

EmptyBuckets(n) ==
    [b \in 0 .. n - 1 |-> [hh_head |-> NULL, count |-> 0, expand_mult |-> 0]]

(* The next entry of a list, NULL after its end.                           *)
Follow(link, e) == IF e = NULL THEN NULL ELSE link[e]

(* Where one is after n steps from first; no list is longer than the       *)
(* number of entries.                                                      *)
Walk(link, first) ==
    LET at[n \in 0 .. Cardinality(Entries)] ==
            IF n = 0 THEN first ELSE Follow(link, at[n - 1])
    IN  at

(* The entries of the list that begins with first.                         *)
List(link, first) ==
    { Walk(link, first)[n] : n \in 0 .. Cardinality(Entries) } \ {NULL}

Chain(b) == List(hh_next, buckets[b].hh_head)

(* HASH_FIND: NULL without a table, else the entry of the bucket's list    *)
(* that has the key.                                                       *)
HASH_FIND(e) ==
    IF head # NULL /\ e \in Chain(ToBucket(e, num_buckets)) THEN e ELSE NULL

(* The link of `at`, when it is an entry, leads to `to`, the link of e     *)
(* nowhere.                                                                *)
Relinked(links, at, to, e) ==
    [x \in Entries |-> IF x = e THEN NULL ELSE IF x = at THEN to ELSE links[x]]

(* e goes to the front of the list of bucket b.                            *)
Pushed(bkts, b, e) ==
    [bkts EXCEPT ![b] = [hh_head |-> e, count |-> @.count + 1,
                         expand_mult |-> @.expand_mult]]

LinkInFront(e, first) ==
    /\ hh_next' = [hh_next EXCEPT ![e] = first]
    /\ hh_prev' = Relinked(hh_prev, first, e, e)

-----------------------------------------------------------------------------
(* ceil(items / bkts)                                                      *)
IdealChain(items, bkts) == (items \div bkts) + (IF items % bkts # 0 THEN 1 ELSE 0)

(* The loop begins with the first bucket.                                  *)
StartExpansion ==
    /\ expanding' = TRUE
    /\ new_buckets' = EmptyBuckets(2 * num_buckets)
    /\ ideal_chain_maxlen' = IdealChain(num_items', 2 * num_buckets)
    /\ nonideal_items' = 0
    /\ bkt_i' = 0
    /\ thh' = buckets'[0].hh_head

(* Mutant: expand_mult is not raised for a crowded bucket.                 *)
Counted_MultKept(B) == B

(* A list that is longer than the ideal one raises its bucket's limit.     *)
Counted(B) ==
    IF B.count > ideal_chain_maxlen /\ B.count > B.expand_mult * ideal_chain_maxlen
    THEN [B EXCEPT !.expand_mult = @ + 1] ELSE B

(* One turn of the inner loop: thh moves to its bucket among twice as many.*)
MoveEntry ==
    LET b == ToBucket(thh, 2 * num_buckets)
        B == Pushed(new_buckets, b, thh)[b]
    IN  /\ expanding
        /\ thh # NULL
        /\ new_buckets' = [new_buckets EXCEPT ![b] = Counted(B)]
        /\ nonideal_items' = nonideal_items
                             + (IF B.count > ideal_chain_maxlen THEN 1 ELSE 0)
        /\ LinkInFront(thh, new_buckets[b].hh_head)
        /\ thh' = hh_next[thh]
        /\ UNCHANGED << head, tail, next, prev, num_buckets, buckets, num_items,
                        ideal_chain_maxlen, ineff_expands, noexpand, expanding,
                        bkt_i, exited >>

(* Mutant: the loop over the old buckets stops one early.                  *)
LastBucket_OffByOne == bkt_i + 2 >= num_buckets

LastBucket == bkt_i + 1 = num_buckets

NextBucket ==
    /\ expanding
    /\ thh = NULL
    /\ ~LastBucket
    /\ bkt_i' = bkt_i + 1
    /\ thh' = buckets[bkt_i + 1].hh_head
    /\ UNCHANGED << head, tail, next, prev, num_buckets, buckets, hh_next, hh_prev,
                    num_items, ideal_chain_maxlen, ineff_expands, noexpand,
                    expanding, new_buckets, nonideal_items, exited >>

(* Two ineffective expansions in a row are the last.                       *)
EndExpansion ==
    /\ expanding
    /\ thh = NULL
    /\ LastBucket
    /\ num_buckets' = 2 * num_buckets
    /\ buckets' = new_buckets
    /\ ineff_expands' = IF nonideal_items > num_items \div 2 THEN ineff_expands + 1 ELSE 0
    /\ noexpand' = (noexpand \/ ineff_expands' > 1)
    /\ expanding' = FALSE
    /\ new_buckets' = EmptyBuckets(0)
    /\ bkt_i' = 0
    /\ nonideal_items' = 0
    /\ UNCHANGED << head, tail, next, prev, hh_next, hh_prev, num_items,
                    ideal_chain_maxlen, thh, exited >>

HASH_EXPAND_BUCKETS == MoveEntry \/ NextBucket \/ EndExpansion

(* The bucket has reached its limit, a multiple of the threshold.          *)
Full(B) == B.count >= (B.expand_mult + 1) * HASH_BKT_CAPACITY_THRESH

(* HASH_ADD_TO_BKT of e calls HASH_EXPAND_BUCKETS.                         *)
Expands(e) ==
    LET b == ToBucket(e, num_buckets)
    IN  /\ head # NULL
        /\ ~noexpand
        /\ Full(Pushed(buckets, b, e)[b])

uthash_fatal ==
    /\ MallocFails
    /\ exited' = TRUE
    /\ UNCHANGED << head, tail, next, prev, num_buckets, buckets, hh_next, hh_prev,
                    num_items, ideal_chain_maxlen, ineff_expands, noexpand,
                    expanding, loopVars >>

-----------------------------------------------------------------------------
Init ==
    /\ head = NULL
    /\ tail = NULL
    /\ next = NoLinks /\ prev = NoLinks
    /\ num_buckets = 0
    /\ buckets = EmptyBuckets(0)
    /\ hh_next = NoLinks /\ hh_prev = NoLinks
    /\ num_items = 0
    /\ ideal_chain_maxlen = 0 /\ nonideal_items = 0
    /\ ineff_expands = 0 /\ noexpand = FALSE
    /\ expanding = FALSE
    /\ new_buckets = EmptyBuckets(0) /\ bkt_i = 0 /\ thh = NULL
    /\ exited = FALSE

(* HASH_ADD_PTR to an empty table: HASH_MAKE_TABLE, and e is its head.     *)
AddFirst(e) ==
    /\ head = NULL
    /\ head' = e
    /\ tail' = e
    /\ next' = [next EXCEPT ![e] = NULL]
    /\ prev' = [prev EXCEPT ![e] = NULL]
    /\ num_buckets' = HASH_INITIAL_NUM_BUCKETS
    /\ buckets' = Pushed(EmptyBuckets(HASH_INITIAL_NUM_BUCKETS),
                         ToBucket(e, HASH_INITIAL_NUM_BUCKETS), e)
    /\ LinkInFront(e, NULL)
    /\ num_items' = 1
    /\ UNCHANGED << ideal_chain_maxlen, ineff_expands, noexpand, expanding, loopVars >>

(* HASH_APPEND_LIST, then HASH_ADD_TO_BKT.                                 *)
AddToTable(e) ==
    LET b == ToBucket(e, num_buckets) IN
    /\ head # NULL
    /\ next' = [next EXCEPT ![e] = NULL, ![tail] = e]
    /\ prev' = [prev EXCEPT ![e] = tail]
    /\ tail' = e
    /\ num_items' = num_items + 1
    /\ buckets' = Pushed(buckets, b, e)
    /\ LinkInFront(e, buckets[b].hh_head)
    /\ IF Expands(e) THEN StartExpansion
       ELSE UNCHANGED << ideal_chain_maxlen, expanding, loopVars >>
    /\ UNCHANGED << head, num_buckets, ineff_expands, noexpand >>

(* HASH_ADD_PTR, which needs memory for a first entry and to expand.       *)
HASH_ADD(e) ==
    /\ ~exited /\ ~expanding
    /\ HASH_FIND(e) = NULL
    /\ \/ /\ AddFirst(e) \/ AddToTable(e)
          /\ UNCHANGED exited
       \/ (head = NULL \/ Expands(e)) /\ uthash_fatal

(* HASH_DEL_IN_BKT                                                         *)
HASH_DEL_IN_BKT(b, e) ==
    /\ buckets' = [buckets EXCEPT ![b] =
                      [hh_head |-> IF @.hh_head = e THEN hh_next[e] ELSE @.hh_head,
                       count |-> @.count - 1,
                       expand_mult |-> @.expand_mult]]
    /\ hh_next' = Relinked(hh_next, hh_prev[e], hh_next[e], e)
    /\ hh_prev' = Relinked(hh_prev, hh_next[e], hh_prev[e], e)

(* The last entry goes and takes the table with it.                        *)
DeleteTable(e) ==
    /\ prev[e] = NULL
    /\ next[e] = NULL
    /\ head' = NULL
    /\ tail' = NULL
    /\ num_buckets' = 0
    /\ buckets' = EmptyBuckets(0)
    /\ num_items' = 0
    /\ ideal_chain_maxlen' = 0
    /\ ineff_expands' = 0
    /\ noexpand' = FALSE
    /\ UNCHANGED << next, prev, hh_next, hh_prev >>

(* Mutant: tail still points to an entry that was deleted.                 *)
Unlist_TailKept(e) ==
    /\ tail' = tail
    /\ head' = IF prev[e] = NULL THEN next[e] ELSE head
    /\ next' = Relinked(next, prev[e], next[e], e)
    /\ prev' = Relinked(prev, next[e], prev[e], e)

(* e leaves the list of all entries.                                       *)
Unlist(e) ==
    /\ tail' = IF e = tail THEN prev[e] ELSE tail
    /\ head' = IF prev[e] = NULL THEN next[e] ELSE head
    /\ next' = Relinked(next, prev[e], next[e], e)
    /\ prev' = Relinked(prev, next[e], prev[e], e)

(* Mutant: num_items only grows.                                           *)
DeleteEntry_NotCounted(e) ==
    /\ prev[e] # NULL \/ next[e] # NULL
    /\ Unlist(e)
    /\ HASH_DEL_IN_BKT(ToBucket(e, num_buckets), e)
    /\ UNCHANGED << num_items, num_buckets, ideal_chain_maxlen, ineff_expands, noexpand >>

DeleteEntry(e) ==
    /\ prev[e] # NULL \/ next[e] # NULL
    /\ Unlist(e)
    /\ HASH_DEL_IN_BKT(ToBucket(e, num_buckets), e)
    /\ num_items' = num_items - 1
    /\ UNCHANGED << num_buckets, ideal_chain_maxlen, ineff_expands, noexpand >>

HASH_DEL(e) ==
    /\ ~exited /\ ~expanding
    /\ HASH_FIND(e) # NULL
    /\ DeleteTable(e) \/ DeleteEntry(e)
    /\ UNCHANGED << expanding, loopVars, exited >>

Next == HASH_EXPAND_BUCKETS \/ \E e \in Entries : HASH_ADD(e) \/ HASH_DEL(e)

Spec == Init /\ [][Next]_vars

-----------------------------------------------------------------------------
Buckets == 0 .. num_buckets - 1

Bucket == [hh_head : Pointers,
           count : 0 .. Cardinality(Entries),
           expand_mult : 0 .. Cardinality(Entries)]

(* The fields of the table have their types, a new array of buckets is     *)
(* twice as long as the old one, and counts are at most the entries.       *)
TypeOK ==
    /\ head \in Pointers /\ tail \in Pointers
    /\ next \in Links /\ prev \in Links
    /\ num_buckets \in Nat
    /\ buckets \in [Buckets -> Bucket]
    /\ hh_next \in Links /\ hh_prev \in Links
    /\ num_items \in 0 .. Cardinality(Entries)
    /\ ideal_chain_maxlen \in Nat
    /\ nonideal_items \in 0 .. Cardinality(Entries)
    /\ ineff_expands \in 0 .. 2
    /\ noexpand \in BOOLEAN
    /\ expanding \in BOOLEAN
    /\ new_buckets \in [0 .. (IF expanding THEN 2 * num_buckets ELSE 0) - 1 -> Bucket]
    /\ bkt_i \in IF expanding THEN Buckets ELSE {0}
    /\ thh \in Pointers
    /\ exited \in BOOLEAN

(* A list of n entries, each of which points back to the one before.       *)
WellLinked(link, back, first, n) ==
    LET at == Walk(link, first) IN
    /\ n \in 0 .. Cardinality(Entries)
    /\ at[n] = NULL
    /\ \A i \in 0 .. n - 1 :
           /\ at[i] # NULL
           /\ back[at[i]] = IF i = 0 THEN NULL ELSE at[i - 1]

(***************************************************************************)
(* What HASH_FSCK looks for when uthash is built with HASH_DEBUG, and the  *)
(* shields never do: after any sequence of operations, expansions among    *)
(* them, both kinds of lists are well linked, the counts are right, the    *)
(* tail is the last entry, and each entry is in the bucket of its hash     *)
(* value and there only.                                                   *)
(***************************************************************************)
HASH_FSCK ==
    IF head = NULL THEN num_items = 0
    ELSE LET stored == List(next, head) IN
         /\ WellLinked(next, prev, head, num_items)
         /\ tail = Walk(next, head)[num_items - 1]
         /\ ~expanding =>
                \A b \in Buckets :
                    /\ WellLinked(hh_next, hh_prev, buckets[b].hh_head, buckets[b].count)
                    /\ Chain(b) = { e \in stored : ToBucket(e, num_buckets) = b }

(***************************************************************************)
(* As long as the table may expand no chain outgrows its limit, a multiple *)
(* of the threshold, whatever entries come and go, unless the expansion    *)
(* itself left it so, when the ideal chain is longer than the threshold:   *)
(* then it is no longer than that multiple of the ideal chain              *)
(* (HASH_ADD_TO_BKT, HASH_EXPAND_BUCKETS, expand_mult).                    *)
(***************************************************************************)
ChainsBounded ==
    head # NULL /\ ~noexpand /\ ~expanding =>
        \A b \in Buckets :
            LET B == buckets[b]
            IN  \/ B.count <= (B.expand_mult + 1) * HASH_BKT_CAPACITY_THRESH
                \/ B.count <= (B.expand_mult + 1) * ideal_chain_maxlen

(***************************************************************************)
(* The table is a map: an entry is added only when the list of all entries *)
(* does not have it and deleted only when it does, although it is a search *)
(* of one bucket, HASH_FIND, that tells the shield which to do, and though *)
(* expansions move entries to other buckets.                               *)
(***************************************************************************)
Map == INSTANCE PointerMap WITH stored <- List(next, head)

ImplementsMap == Map!Spec
=============================================================================
