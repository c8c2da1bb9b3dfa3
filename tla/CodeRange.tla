----------------------------- MODULE CodeRange -----------------------------
(***************************************************************************)
(* The code-range watermark of guest memory (Memory::code_range): one      *)
(* packed word (lo, len) over guest page numbers that every inlined guest  *)
(* store of the JIT compares its first byte's page with, to decide whether *)
(* it may have hit a page that backs translated code.  mark_code sets the  *)
(* page's tag and then widens the word with a compare-and-swap loop; any   *)
(* number of threads may do so at once, and stores read the word at any    *)
(* moment.                                                                 *)
(***************************************************************************)
EXTENDS Integers, FiniteSets

CONSTANTS
  NPages,     \* guest pages, numbered from 0 (MAX_TRACKED_SPAN bounds them)
  FieldSize,  \* 2^32: the number of values of one half of the packed word
  Markers,    \* threads that may be inside mark_code
  NoPage

(* fresh_code_pages refuses a span of more than 2^32 - 1 pages. *)
ASSUME NPagesAssumption == NPages \in Nat \ {0}
ASSUME FieldSizeAssumption == FieldSize \in Nat /\ NPages < FieldSize /\ FieldSize > 2
ASSUME NoPageAssumption == NoPage \notin Nat

VARIABLES
  code_page,   \* the tagged pages (Memory::code_page, the bitset)
  code_range,  \* the packed word (Memory::code_range)
  mark,        \* marker -> the page it is widening for, or NoPage
  seen         \* marker -> its local `cur`, the word it last loaded

rangeVars == <<code_page, code_range, mark, seen>>

GuestPages == 0 .. NPages - 1

(* One word: two halves of FieldSize values each. *)
Words == [lo : 0 .. FieldSize - 1, len : 0 .. FieldSize - 1]

EmptyRange == [lo |-> 0, len |-> 0]

(* The question generated code asks, `page - lo < len` unsigned: a page    *)
(* below lo wraps around to a number no length reaches.                    *)
InRange(p, w) == w.lo <= p /\ p < w.lo + w.len

(* `(lo << 32) | len`: a length of exactly 2^32 does not fit its half and  *)
(* sets the lowest bit of the other one.                                   *)
Pack(lo, len) ==
  IF len < FieldSize THEN [lo |-> lo, len |-> len]
  ELSE [lo |-> IF lo % 2 = 0 THEN lo + 1 ELSE lo, len |-> len - FieldSize]

SatPred(n) == IF n = 0 THEN 0 ELSE n - 1

Least(a, b) == IF a < b THEN a ELSE b

Greatest(a, b) == IF a < b THEN b ELSE a

(* Mutant: the upper end of the old word is forgotten.                     *)
WidenedForgetsHigh(w, p) ==
  LET new_lo == IF w.len = 0 THEN p ELSE Least(w.lo + 1, p)
  IN  Pack(SatPred(new_lo), IF p < new_lo THEN 2 ELSE p - new_lo + 2)

(* The word one turn of the loop wants to install: undo the one-page skew  *)
(* of the current word, take page p in, apply the skew again.              *)
Widened(w, p) ==
  LET first == w.len = 0
      new_lo == IF first THEN p ELSE Least(w.lo + 1, p)
      new_hi == IF first THEN p ELSE Greatest(w.lo + w.len - 1, p)
  IN  Pack(SatPred(new_lo), new_hi - new_lo + 2)

(* The loop stops without a store when the page is inside already.         *)
Settled(w, p) == (w.len # 0 /\ InRange(p, w)) \/ Widened(w, p) = w
-----------------------------------------------------------------------------
RangeInit ==
  /\ code_page = {}
  /\ code_range = EmptyRange
  /\ mark = [m \in Markers |-> NoPage]
  /\ seen = [m \in Markers |-> EmptyRange]

(* mark_code on one page: set the tag, then enter widen_code_range, which  *)
(* starts by loading the word.                                             *)
MarkCode(m, p) ==
  /\ mark[m] = NoPage
  /\ code_page' = code_page \cup {p}
  /\ mark' = [mark EXCEPT ![m] = p]
  /\ seen' = [seen EXCEPT ![m] = code_range]
  /\ UNCHANGED code_range

(* The loop finds the page inside the word it loaded: return.              *)
WidenSettled(m) ==
  /\ mark[m] # NoPage
  /\ Settled(seen[m], mark[m])
  /\ mark' = [mark EXCEPT ![m] = NoPage]
  /\ UNCHANGED <<code_page, code_range, seen>>

(* Mutant: a plain store instead of the compare-exchange.                  *)
WidenSwapUnchecked(m) ==
  /\ mark[m] # NoPage
  /\ ~Settled(seen[m], mark[m])
  /\ code_range' = Widened(seen[m], mark[m])
  /\ mark' = [mark EXCEPT ![m] = NoPage]
  /\ UNCHANGED <<code_page, seen>>

(* The compare-exchange succeeds.                                          *)
WidenSwap(m) ==
  /\ mark[m] # NoPage
  /\ ~Settled(seen[m], mark[m])
  /\ code_range = seen[m]
  /\ code_range' = Widened(seen[m], mark[m])
  /\ mark' = [mark EXCEPT ![m] = NoPage]
  /\ UNCHANGED <<code_page, seen>>

(* The compare-exchange fails, because another thread changed the word or  *)
(* spuriously (it is the weak form), and reloads.                          *)
WidenRetry(m) ==
  /\ mark[m] # NoPage
  /\ ~Settled(seen[m], mark[m])
  /\ seen' = [seen EXCEPT ![m] = code_range]
  /\ UNCHANGED <<code_page, code_range, mark>>

(* clear_code_page, after the blocks of the page were dropped: the tag     *)
(* goes, the word is left alone.                                           *)
ClearCodePage(p) ==
  /\ p \in code_page
  /\ code_page' = code_page \ {p}
  /\ UNCHANGED <<code_range, mark, seen>>

(* clear_all_code_pages, when a Trap region is mapped.                     *)
ClearAllCodePages ==
  /\ code_page # {}
  /\ code_page' = {}
  /\ UNCHANGED <<code_range, mark, seen>>

RangeNext ==
  \/ \E m \in Markers, p \in GuestPages : MarkCode(m, p)
  \/ \E m \in Markers : WidenSettled(m) \/ WidenSwap(m) \/ WidenRetry(m)
  \/ \E p \in GuestPages : ClearCodePage(p)
  \/ ClearAllCodePages

RangeSpec == RangeInit /\ [][RangeNext]_rangeVars

(* A thread inside widen_code_range keeps running, and the weak            *)
(* compare-exchange does not fail for ever once nobody interferes.         *)
WidenStep(m) == WidenSettled(m) \/ WidenSwap(m) \/ WidenRetry(m)

RangeFairSpec ==
  RangeSpec /\ \A m \in Markers : WF_rangeVars(WidenStep(m)) /\ SF_rangeVars(WidenSwap(m))
-----------------------------------------------------------------------------
(* Types of the watermark's state; the word always fits its two halves.    *)
RangeTypeOK ==
  /\ code_page \subseteq GuestPages
  /\ code_range \in Words
  /\ mark \in [Markers -> GuestPages \cup {NoPage}]
  /\ seen \in [Markers -> Words]

(* A tagged page whose mark_code call has returned.                        *)
Marked(p) == p \in code_page /\ \A m \in Markers : mark[m] # p

(* widen_code_range: once mark_code has returned, a store that starts in a *)
(* tagged page passes the gate of generated code, whatever other threads   *)
(* were widening the word for at the same time.                            *)
CodePagesCovered == \A p \in GuestPages : Marked(p) => InRange(p, code_range)

(* "Only ever widens": no step takes a page out of the word, so a          *)
(* concurrent mark_code is never undone.                                   *)
RangeOnlyWidens ==
  [][\A p \in GuestPages : InRange(p, code_range) => InRange(p, code_range')]_rangeVars

(* mark_code returns: the compare-and-swap loop ends although other        *)
(* threads move the word under it.                                         *)
MarkReturns == \A m \in Markers : mark[m] # NoPage ~> mark[m] = NoPage

(* The comment on widen_code_range: `lo` is one page BELOW the lowest code *)
(* page, so a store whose first byte is in the page below a tagged page,   *)
(* and which spills into it, passes the gate too.                          *)
SpillCovered == \A p \in GuestPages : p > 0 /\ Marked(p) => InRange(p - 1, code_range)
=============================================================================
