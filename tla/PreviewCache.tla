------------------------------ MODULE PreviewCache ------------------------------
(***************************************************************************)
(* The cache of chart previews of one process: unrender/product/           *)
(* preview_cache.py and the thumbnails of job_source in service.py.        *)
(* Threads look a key up under the lock, render without it, and store what *)
(* they made under the lock again.                                         *)
(*                                                                         *)
(* Abstractions.  An image is its size, which its key decides.  Time is    *)
(* left out: a lookup may find any of the entries expired.                 *)
(***************************************************************************)
EXTENDS Integers, Sequences, FiniteSetsExt, Functions

CONSTANTS
    Threads,       \* requests that want a preview
    Charts,        \* the keys
    ImageSize,     \* the size of each rendered image
    MaxBytes,      \* max_bytes
    MaxEntries     \* 24

ASSUME PreviewAssumption ==
    ImageSize \in [Charts -> Nat] /\ MaxBytes \in Nat /\ MaxEntries \in Nat \ {0}

NoChart == "no chart"

VARIABLES
    entries,       \* _entries, the one used longest ago first
    bytes,         \* _bytes
    rendering      \* what each thread renders

previewVars == <<entries, bytes, rendering>>

Cached == Range(entries)
Size(keys) == SumFunctionOnSet(ImageSize, keys)

\* The entries of s but for those of keys, in their order.
Without(s, keys) ==
    LET kept[i \in 0 .. Len(s)] ==
            IF i = 0 THEN <<>>
            ELSE IF s[i] \in keys THEN kept[i - 1] ELSE Append(kept[i - 1], s[i])
    IN  kept[Len(s)]

PreviewTypeOK ==
    /\ entries \in Seq(Charts) /\ bytes \in Int
    /\ rendering \in [Threads -> Charts \cup {NoChart}]

PreviewInit == entries = <<>> /\ bytes = 0 /\ rendering = [t \in Threads |-> NoChart]

\* get: the expired go; a hit becomes the newest, a miss is rendered.
Get(t, k) ==
    /\ rendering[t] = NoChart
    /\ \E expired \in SUBSET Cached :
          LET kept == Without(entries, expired)
          IN  /\ bytes' = bytes - Size(expired)
              /\ IF k \in Cached \ expired
                 THEN entries' = Append(Without(kept, {k}), k) /\ UNCHANGED rendering
                 ELSE entries' = kept /\ rendering' = [rendering EXCEPT ![t] = k]

Oldest(s, i) == {s[j] : j \in 1 .. i}

\* The loop that evicts, on the entries s while _bytes is n.
FitsAfter(i, s, n, k) ==
    \/ i = Len(s)
    \/ /\ n - Size(Oldest(s, i)) + ImageSize[k] <= MaxBytes
       /\ Len(s) - i < MaxEntries

StoreAfter(s, n, k) ==
    LET evicted == Min({i \in 0 .. Len(s) : FitsAfter(i, s, n, k)})
    IN  /\ entries' = Append(SubSeq(s, evicted + 1, Len(s)), k)
        /\ bytes' = n - Size(Oldest(s, evicted)) + ImageSize[k]

\* Mutant: an image that another thread has stored meanwhile is replaced, and
\* still counted.
StoreOver(t) ==
    LET k == rendering[t]
    IN  /\ k # NoChart
        /\ rendering' = [rendering EXCEPT ![t] = NoChart]
        /\ IF ImageSize[k] > MaxBytes
           THEN UNCHANGED <<entries, bytes>>
           ELSE StoreAfter(Without(entries, {k}), bytes, k)

\* An image that is too large is returned and not stored.
Store(t) ==
    LET k == rendering[t]
        previous == IF k \in Cached THEN ImageSize[k] ELSE 0
    IN  /\ k # NoChart
        /\ rendering' = [rendering EXCEPT ![t] = NoChart]
        /\ IF ImageSize[k] > MaxBytes
           THEN UNCHANGED <<entries, bytes>>
           ELSE StoreAfter(Without(entries, {k}), bytes - previous, k)

RenderFails(t) ==
    /\ rendering[t] # NoChart
    /\ rendering' = [rendering EXCEPT ![t] = NoChart]
    /\ UNCHANGED <<entries, bytes>>

PreviewNext ==
    \E t \in Threads :
        \/ \E k \in Charts : Get(t, k)
        \/ Store(t) \/ RenderFails(t)

PreviewSpec == PreviewInit /\ [][PreviewNext]_previewVars

-----------------------------------------------------------------------------
(* Properties                                                              *)

\* However the renders of threads overlap, expire and evict each other, what
\* the cache counts is what it holds, once each, and never above its limits: a
\* count that drifts would empty the cache for good, or let it grow.
CountsWhatItHolds ==
    /\ bytes = Size(Cached) /\ bytes <= MaxBytes
    /\ IsInjective(entries) /\ Len(entries) <= MaxEntries
=============================================================================
