----------------------------- MODULE WatchPages -----------------------------
(***************************************************************************)
(* Dirty tracking of embedder-registered data pages (memory.rs:            *)
(* WatchPages): watch_range, unwatch_range and take_dirty_ranges on        *)
(* embedder threads against note_write on the threads that store.  One     *)
(* step is one atomic access, or what runs under the lock of the scan      *)
(* list.                                                                   *)
(***************************************************************************)
EXTENDS Integers, Sequences, FiniteSets, FiniteSetsExt

CONSTANTS
  Embedders,  \* threads that watch, unwatch and drain
  Writers,    \* threads that store
  Pages,      \* guest page numbers
  WordSize,   \* pages per word of the bitmaps (64 in the code)
  Stores,     \* the page sets one store may touch
  MaxStores,  \* bound: stores in a behaviour
  Nothing

ASSUME PagesAssumption == Pages \subseteq Nat /\ IsFiniteSet(Pages)
ASSUME WordAssumption == WordSize \in Nat \ {0}
ASSUME StoresAssumption == Stores \subseteq SUBSET Pages /\ MaxStores \in Nat
ASSUME NothingAssumption == Nothing \notin Pages /\ Nothing \notin Embedders

VARIABLES
  watch,      \* pages whose watch bit is set
  dirty,      \* pages whose dirty bit is set
  words,      \* the scan list: words that hold a watched page
  count,      \* number of watched pages, the gate of the store path
  lock,       \* the embedder holding the scan list's lock, or Nothing
  pc, page,   \* embedder -> where it is, and the page it works on
  scan, got,  \* embedder -> words still to drain, pages drained so far
  ranges,     \* embedder -> what its last take_dirty_ranges returned
  wpc, todo,  \* writer -> where it is in note_write, pages left to look at
  at,         \* writer -> the page it looks at
  nstores,    \* bound: stores so far
  registered, \* history: pages whose watch has returned, no unwatch begun
  written,    \* history: registered pages with bytes no drain has reported
  must        \* history: embedder -> pages its running drain has to report

bitmaps == <<watch, dirty, words, count>>
drain == <<scan, got, ranges, must>>
writer == <<wpc, todo, at, nstores>>
watchVars == <<bitmaps, lock, pc, page, drain, writer, registered, written>>

(* word_bit: the word of a page.                                           *)
WordOf(p) == p \div WordSize

InWord(S, w) == {p \in S : WordOf(p) = w}

Goto(e, l) == pc' = [pc EXCEPT ![e] = l]
-----------------------------------------------------------------------------
WatchInit ==
  /\ watch = {} /\ dirty = {} /\ words = {} /\ count = 0 /\ lock = Nothing
  /\ pc = [e \in Embedders |-> "idle"] /\ page = [e \in Embedders |-> Nothing]
  /\ scan = [e \in Embedders |-> {}] /\ got = [e \in Embedders |-> {}]
  /\ ranges = [e \in Embedders |-> <<>>]
  /\ wpc = [t \in Writers |-> "idle"] /\ todo = [t \in Writers |-> {}]
  /\ at = [t \in Writers |-> Nothing] /\ nstores = 0
  /\ registered = {} /\ written = {} /\ must = [e \in Embedders |-> {}]
-----------------------------------------------------------------------------
(* watch: fetch_or; a page already watched is left as it is.               *)
WatchSet(e, p) ==
  /\ pc[e] = "idle"
  /\ page' = [page EXCEPT ![e] = p]
  /\ watch' = watch \cup {p}
  /\ Goto(e, IF p \in watch THEN "idle" ELSE "wcount")
  /\ registered' = IF p \in watch THEN registered \cup {p} ELSE registered
  /\ UNCHANGED <<dirty, words, count, lock, drain, writer, written>>

WatchCount(e) ==
  /\ pc[e] = "wcount"
  /\ count' = count + 1
  /\ Goto(e, "wword")
  /\ UNCHANGED <<watch, dirty, words, lock, page, drain, writer, registered, written>>

WatchWord(e) ==
  /\ pc[e] = "wword" /\ lock = Nothing
  /\ words' = words \cup {WordOf(page[e])}
  /\ registered' = registered \cup {page[e]}
  /\ Goto(e, "idle")
  /\ UNCHANGED <<watch, dirty, count, lock, page, drain, writer, written>>

(* unwatch: fetch_and; a page not watched is left as it is.                *)
UnwatchClear(e, p) ==
  /\ pc[e] = "idle"
  /\ page' = [page EXCEPT ![e] = p]
  /\ watch' = watch \ {p}
  /\ Goto(e, IF p \in watch THEN "ucount" ELSE "idle")
  /\ registered' = registered \ {p} /\ written' = written \ {p}
  /\ UNCHANGED <<dirty, words, count, lock, drain, writer>>

UnwatchCount(e) ==
  /\ pc[e] = "ucount"
  /\ count' = count - 1
  /\ Goto(e, "udirty")
  /\ UNCHANGED <<watch, dirty, words, lock, page, drain, writer, registered, written>>

(* unwatch: drop a pending dirty bit.                                      *)
UnwatchDirty(e) ==
  /\ pc[e] = "udirty"
  /\ dirty' = dirty \ {page[e]}
  /\ Goto(e, "utest")
  /\ UNCHANGED <<watch, words, count, lock, page, drain, writer, registered, written>>

(* Mutant: the word leaves the scan list whatever else it watches.         *)
UnwatchTestNothing(e) ==
  /\ pc[e] = "utest"
  /\ Goto(e, "uremove")
  /\ UNCHANGED <<bitmaps, lock, page, drain, writer, registered, written>>

(* unwatch: does the word still hold a watched page?                       *)
UnwatchTest(e) ==
  /\ pc[e] = "utest"
  /\ Goto(e, IF InWord(watch, WordOf(page[e])) = {} THEN "uremove" ELSE "idle")
  /\ UNCHANGED <<bitmaps, lock, page, drain, writer, registered, written>>

UnwatchRemove(e) ==
  /\ pc[e] = "uremove" /\ lock = Nothing
  /\ words' = words \ {WordOf(page[e])}
  /\ Goto(e, "idle")
  /\ UNCHANGED <<watch, dirty, count, lock, page, drain, writer, registered, written>>
-----------------------------------------------------------------------------
(* Pages some writer has stored to and not finished noting.                *)
Noting == {p \in Pages : \E t \in Writers : p \in todo[t] \/ at[t] = p}

(* take_dirty: nothing watched, nothing to do.                             *)
TakeGate(e) ==
  /\ pc[e] = "idle"
  /\ must' = [must EXCEPT ![e] = written \ Noting]
  /\ got' = [got EXCEPT ![e] = {}]
  /\ IF count = 0
     THEN ranges' = [ranges EXCEPT ![e] = <<>>] /\ UNCHANGED pc
     ELSE Goto(e, "lock") /\ UNCHANGED ranges
  /\ UNCHANGED <<bitmaps, lock, page, scan, writer, registered, written>>

TakeLock(e) ==
  /\ pc[e] = "lock" /\ lock = Nothing
  /\ lock' = e
  /\ scan' = [scan EXCEPT ![e] = words]
  /\ Goto(e, "scan")
  /\ UNCHANGED <<bitmaps, page, got, ranges, must, writer, registered, written>>

(* take_dirty: swap one word of dirty bits with zero.                      *)
TakeWord(e) ==
  /\ pc[e] = "scan" /\ scan[e] # {}
  /\ LET w == CHOOSE x \in scan[e] : \A y \in scan[e] : x <= y
         bits == InWord(dirty, w)
     IN  /\ scan' = [scan EXCEPT ![e] = @ \ {w}]
         /\ got' = [got EXCEPT ![e] = @ \cup bits]
         /\ dirty' = dirty \ bits
         /\ written' = written \ bits
  /\ UNCHANGED <<watch, words, count, lock, pc, page, ranges, must, writer, registered>>

(* Mutant: a page opens a range of its own if the last one has grown.      *)
ExtendShort(out, p) ==
  IF out # <<>> /\ out[Len(out)].start + 1 = p
  THEN [out EXCEPT ![Len(out)].len = @ + 1]
  ELSE Append(out, [start |-> p, len |-> 1])

(* take_dirty_ranges: a page that begins where the last range ends grows   *)
(* it.  Ranges are in pages here.                                          *)
Extend(out, p) ==
  IF out # <<>> /\ out[Len(out)].start + out[Len(out)].len = p
  THEN [out EXCEPT ![Len(out)].len = @ + 1]
  ELSE Append(out, [start |-> p, len |-> 1])

(* The pages in ascending order: the largest is the last one applied.      *)
Coalesced(S) ==
  MapThenFoldSet(LAMBDA p, out : Extend(out, p), <<>>, LAMBDA p : p, Max, S)

TakeDone(e) ==
  /\ pc[e] = "scan" /\ scan[e] = {}
  /\ lock' = Nothing
  /\ ranges' = [ranges EXCEPT ![e] = Coalesced(got[e])]
  /\ Goto(e, "idle")
  /\ UNCHANGED <<bitmaps, page, scan, got, must, writer, registered, written>>
-----------------------------------------------------------------------------
(* A store: the bytes, then note_write.                                    *)
Store(t, S) ==
  /\ wpc[t] = "idle" /\ nstores < MaxStores
  /\ nstores' = nstores + 1
  /\ written' = written \cup (S \cap registered)
  /\ todo' = [todo EXCEPT ![t] = S]
  /\ wpc' = [wpc EXCEPT ![t] = "gate"]
  /\ UNCHANGED <<bitmaps, lock, pc, page, drain, at, registered>>

(* note_write: one load of the count gates all pages of the store.         *)
NoteGate(t) ==
  /\ wpc[t] = "gate"
  /\ IF count = 0
     THEN /\ todo' = [todo EXCEPT ![t] = {}]
          /\ wpc' = [wpc EXCEPT ![t] = "idle"]
     ELSE /\ wpc' = [wpc EXCEPT ![t] = "test"]
          /\ UNCHANGED todo
  /\ UNCHANGED <<bitmaps, lock, pc, page, drain, at, nstores, registered, written>>

(* The next page of the store, or the end of it.                           *)
NextPage(t, S) ==
  /\ todo' = [todo EXCEPT ![t] = S]
  /\ wpc' = [wpc EXCEPT ![t] = IF S = {} THEN "idle" ELSE "test"]

(* note_write: is_watched.                                                 *)
NoteTest(t, p) ==
  /\ wpc[t] = "test" /\ p \in todo[t]
  /\ IF p \in watch
     THEN /\ at' = [at EXCEPT ![t] = p]
          /\ todo' = [todo EXCEPT ![t] = @ \ {p}]
          /\ wpc' = [wpc EXCEPT ![t] = "load"]
     ELSE NextPage(t, todo[t] \ {p}) /\ UNCHANGED at
  /\ UNCHANGED <<bitmaps, lock, pc, page, drain, nstores, registered, written>>

(* mark_dirty: the test before the test-and-set.                           *)
MarkLoad(t) ==
  /\ wpc[t] = "load"
  /\ IF at[t] \in dirty
     THEN NextPage(t, todo[t]) /\ at' = [at EXCEPT ![t] = Nothing]
     ELSE wpc' = [wpc EXCEPT ![t] = "set"] /\ UNCHANGED <<todo, at>>
  /\ UNCHANGED <<bitmaps, lock, pc, page, drain, nstores, registered, written>>

(* Mutant: the bit is stored over the word, not or-ed in.                  *)
MarkStore(t) ==
  /\ wpc[t] = "set"
  /\ dirty' = (dirty \ InWord(dirty, WordOf(at[t]))) \cup {at[t]}
  /\ NextPage(t, todo[t]) /\ at' = [at EXCEPT ![t] = Nothing]
  /\ UNCHANGED <<watch, words, count, lock, pc, page, drain, nstores, registered, written>>

(* mark_dirty: fetch_or.                                                   *)
MarkSet(t) ==
  /\ wpc[t] = "set"
  /\ dirty' = dirty \cup {at[t]}
  /\ NextPage(t, todo[t]) /\ at' = [at EXCEPT ![t] = Nothing]
  /\ UNCHANGED <<watch, words, count, lock, pc, page, drain, nstores, registered, written>>
-----------------------------------------------------------------------------
Embedder(e) ==
  \/ \E p \in Pages : WatchSet(e, p) \/ UnwatchClear(e, p)
  \/ WatchCount(e) \/ WatchWord(e)
  \/ UnwatchCount(e) \/ UnwatchDirty(e) \/ UnwatchTest(e) \/ UnwatchRemove(e)
  \/ TakeGate(e) \/ TakeLock(e) \/ TakeWord(e) \/ TakeDone(e)

Writer(t) ==
  \/ \E S \in Stores : Store(t, S)
  \/ NoteGate(t) \/ MarkLoad(t) \/ MarkSet(t)
  \/ \E p \in Pages : NoteTest(t, p)

WatchNext == (\E e \in Embedders : Embedder(e)) \/ (\E t \in Writers : Writer(t))

WatchSpec == WatchInit /\ [][WatchNext]_watchVars
-----------------------------------------------------------------------------
(* Types of the bitmaps and of the threads' places.                        *)
WatchTypeOK ==
  /\ watch \subseteq Pages /\ dirty \subseteq Pages
  /\ words \subseteq {WordOf(p) : p \in Pages} /\ count \in 0 .. Cardinality(Pages)
  /\ lock \in Embedders \cup {Nothing}
  /\ pc \in [Embedders -> {"idle", "wcount", "wword", "ucount", "udirty", "utest",
                            "uremove", "lock", "scan"}]
  /\ page \in [Embedders -> Pages \cup {Nothing}]
  /\ wpc \in [Writers -> {"idle", "gate", "test", "load", "set"}]
  /\ todo \in [Writers -> SUBSET Pages] /\ at \in [Writers -> Pages \cup {Nothing}]
  /\ registered \subseteq watch /\ written \subseteq registered

(* "Count only unwatched->watched transitions, so `count` is exact": it is *)
(* the number of watch bits, up to the transitions in progress.            *)
CountIsExact ==
  count + Cardinality({e \in Embedders : pc[e] = "wcount"}) =
    Cardinality(watch) + Cardinality({e \in Embedders : pc[e] = "ucount"})

(* "No page is ever lost" (mark_dirty): a registered page with unreported  *)
(* bytes has its dirty bit, or the writer has still to look at it.         *)
NoPageLost == written \subseteq dirty \cup Noting

(* A drain reports every page that was written, and noted, before it       *)
(* began, and returns it in its ranges.                                    *)
DrainIsComplete ==
  \A e \in Embedders :
    pc[e] = "scan" /\ scan[e] = {} => must[e] \subseteq got[e]

(* take_dirty_ranges: the ranges are the drained pages, in order, no two   *)
(* of them adjacent.                                                       *)
RangesAreExact ==
  [][\A e \in Embedders : pc[e] = "scan" /\ pc'[e] = "idle" =>
       LET r == ranges'[e]
           covered(i) == r[i].start .. r[i].start + r[i].len - 1
       IN  /\ UNION {covered(i) : i \in DOMAIN r} = got[e]
           /\ \A i \in 1 .. Len(r) - 1 : r[i].start + r[i].len < r[i + 1].start]_watchVars

(* "Indices of `watch` words holding at least one watched page": between   *)
(* operations the scan list reaches every watched page.                    *)
WatchedIsScanned ==
  (\A e \in Embedders : pc[e] = "idle") => \A p \in watch : WordOf(p) \in words

(* unwatch: "an unwatched page must not surface in a later drain".  With   *)
(* one embedder thread nothing is unwatched while it drains.               *)
OnlyWatchedReported == \A e \in Embedders : pc[e] = "scan" => got[e] \subseteq watch
=============================================================================
