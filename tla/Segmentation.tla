---------------------------- MODULE Segmentation ----------------------------
(***************************************************************************)
(* Cutting a context: _units, segment and grouped_parts of                 *)
(* context/segmenter.py as the loops they are, and the fragments that      *)
(* Session._fragments (repl/worker.py) sends from the result.              *)
(*                                                                         *)
(* A text is the list of the stretches between two structural boundaries:  *)
(* how long each is and whether it is blank.  What a boundary is (a blank  *)
(* line, a heading, a definition) is left out; every list of stretches can *)
(* occur.  A span is the offsets it goes from and to.                      *)
(* The names say Segmenter so that a module can extend SemanticSweep too.  *)
(***************************************************************************)
EXTENDS Integers, Sequences, FiniteSets

CONSTANTS
  MinChars,     \* the band of segment
  TargetChars,
  MaxChars,
  Cap,          \* items_per_fragment of the schema
  MaxStretches, \* bound: stretches of a text
  MaxLen,       \* bound: characters of a stretch
  MaxSlots      \* bound: child slots offered to grouped_parts

\* segment raises ValueError for any other band.
ASSUME BandAssumption ==
  /\ {MinChars, TargetChars, MaxChars} \subseteq Nat
  /\ 0 < MinChars /\ MinChars <= TargetChars /\ TargetChars <= MaxChars

ASSUME BoundAssumption ==
  /\ MaxStretches \in Nat
  /\ {Cap, MaxLen, MaxSlots} \subseteq Nat \ {0}

Stretch == [len : 1 .. MaxLen, blank : BOOLEAN]
Texts == UNION {[1 .. n -> Stretch] : n \in 0 .. MaxStretches}

VARIABLES
  text,    \* the stretches still to read in _units, all of them at first
  slots,   \* slots of grouped_parts, already max(1, .)
  phase,   \* the loop that runs: "units", "pack", "group" or "done"
  size,    \* characters of the text read so far
  units,   \* spans of _units, with the blankness of their first stretch
  next,    \* the unit that segment has reached
  head,    \* unit_start: the unit's characters before it are cut off
  open,    \* segment's start and end, NoSpan for None
  segs,    \* spans
  tries,   \* k of grouped_parts
  cuts     \* cuts of grouped_parts

segmenterVars == <<text, slots, phase, size, units, next, head, open, segs, tries, cuts>>

Span(from, to) == [from |-> from, to |-> to]
NoSpan == Span(0, 0)
Chars(span) == span.to - span.from
Last(s) == s[Len(s)]
Front(s) == SubSeq(s, 1, Len(s) - 1)
\* The spans s lie end to end, from offset 0 to the offset `to`.
Tile(s, to) ==
  /\ s = <<>> => to = 0
  /\ s # <<>> => s[1].from = 0 /\ Last(s).to = to
  /\ \A a \in DOMAIN s : s[a].from < s[a].to
  /\ \A a \in 1 .. Len(s) - 1 : s[a].to = s[a + 1].from
-----------------------------------------------------------------------------
SegmenterInit ==
  /\ text \in Texts
  /\ slots \in 1 .. MaxSlots
  /\ phase = "units"
  /\ size = 0
  /\ units = <<>>
  /\ next = 1
  /\ head = 0
  /\ open = NoSpan
  /\ segs = <<>>
  /\ tries = 1
  /\ cuts = <<>>

Unit(from, to, blank) == [from |-> from, to |-> to, blank |-> blank]

\* _units: a blank stretch is joined to the unit before it.
ReadStretch ==
  /\ phase = "units"
  /\ text # <<>>
  /\ LET s == Head(text)
     IN  /\ units' = IF s.blank /\ units # <<>>
                     THEN [units EXCEPT ![Len(units)].to = size + s.len]
                     ELSE Append(units, Unit(size, size + s.len, s.blank))
         /\ size' = size + s.len
  /\ text' = Tail(text)
  /\ UNCHANGED <<slots, phase, next, head, open, segs, tries, cuts>>

(***************************************************************************)
(* _units: a leading blank unit joins the next one; a text that is blank   *)
(* altogether has no units.                                                *)
(***************************************************************************)
EndUnits ==
  /\ phase = "units"
  /\ text = <<>>
  /\ units' = IF units = <<>> \/ ~units[1].blank THEN units
              ELSE IF Len(units) = 1 THEN <<>>
              ELSE [Tail(units) EXCEPT ![1].from = 0]
  /\ phase' = "pack"
  /\ UNCHANGED <<text, slots, size, next, head, open, segs, tries, cuts>>
-----------------------------------------------------------------------------
Rest == Span(head, units[next].to)
Flushed == IF open = NoSpan THEN segs ELSE Append(segs, open)

\* Mutant: what was packed before an oversized unit is forgotten.
CutForgets ==
  /\ phase = "pack"
  /\ next <= Len(units)
  /\ Chars(Rest) > MaxChars
  /\ segs' = Append(segs, Span(head, head + MaxChars))
  /\ open' = NoSpan
  /\ head' = head + MaxChars
  /\ UNCHANGED <<text, slots, phase, size, units, next, tries, cuts>>

\* segment: a unit larger than the maximum is cut, what was packed before
\* it is closed.
Cut ==
  /\ phase = "pack"
  /\ next <= Len(units)
  /\ Chars(Rest) > MaxChars
  /\ segs' = Append(Flushed, Span(head, head + MaxChars))
  /\ open' = NoSpan
  /\ head' = head + MaxChars
  /\ UNCHANGED <<text, slots, phase, size, units, next, tries, cuts>>

\* segment: the unit, or what is left of it, is packed; a group that
\* reached the target is closed.
Pack ==
  /\ phase = "pack"
  /\ next <= Len(units)
  /\ Chars(Rest) <= MaxChars
  /\ LET group == IF open = NoSpan THEN Rest ELSE Span(open.from, Rest.to)
     IN  IF Chars(group) >= TargetChars
         THEN segs' = Append(segs, group) /\ open' = NoSpan
         ELSE segs' = segs /\ open' = group
  /\ next' = next + 1
  /\ head' = Rest.to
  /\ UNCHANGED <<text, slots, phase, size, units, tries, cuts>>

\* segment: the last group is closed, and a short tail is folded back.
Fold ==
  /\ phase = "pack"
  /\ next > Len(units)
  /\ LET all == Flushed
     IN  segs' = IF Len(all) > 1 /\ Chars(Last(all)) < MinChars
                 THEN [Front(all) EXCEPT ![Len(all) - 1].to = Last(all).to]
                 ELSE all
  /\ open' = NoSpan
  /\ phase' = "group"
  /\ UNCHANGED <<text, slots, size, units, next, head, tries, cuts>>
-----------------------------------------------------------------------------
Ends == {segs[a].to : a \in DOMAIN segs} \ {size}
Previous == IF cuts = <<>> THEN 0 ELSE Last(cuts)
Candidates == {e \in Ends : e > Previous}
\* |e - len(text) * k / slots|, in units of 1 / slots
Distance(e) ==
  LET d == e * slots - size * tries IN IF d < 0 THEN -d ELSE d

\* Mutant: the loop runs to `slots` included.
CutPartMore ==
  /\ phase = "group"
  /\ tries <= slots
  /\ \E e \in Candidates :
       /\ \A f \in Candidates :
            Distance(e) < Distance(f) \/ (Distance(e) = Distance(f) /\ e <= f)
       /\ cuts' = Append(cuts, e)
  /\ tries' = tries + 1
  /\ UNCHANGED <<text, slots, phase, size, units, next, head, open, segs>>

\* grouped_parts: the segment edge nearest to the ideal bound, the first
\* of two that are equally near.
CutPart ==
  /\ phase = "group"
  /\ tries < slots
  /\ \E e \in Candidates :
       /\ \A f \in Candidates :
            Distance(e) < Distance(f) \/ (Distance(e) = Distance(f) /\ e <= f)
       /\ cuts' = Append(cuts, e)
  /\ tries' = tries + 1
  /\ UNCHANGED <<text, slots, phase, size, units, next, head, open, segs>>

EndGroups ==
  /\ phase = "group"
  /\ tries >= slots \/ Candidates = {}
  /\ phase' = "done"
  /\ UNCHANGED <<text, slots, size, units, next, head, open, segs, tries, cuts>>

Segmented == phase = "done" /\ UNCHANGED segmenterVars

SegmenterNext ==
  \/ ReadStretch \/ EndUnits \/ Cut \/ Pack \/ Fold \/ CutPart \/ EndGroups
  \/ Segmented

SegmenterSpec == SegmenterInit /\ [][SegmenterNext]_segmenterVars
-----------------------------------------------------------------------------
\* grouped_parts: the texts between two bounds that are not empty, in order.
Bounds == <<0>> \o cuts \o <<size>>
Inhabited == {a \in 1 .. Len(Bounds) - 1 : Bounds[a] < Bounds[a + 1]}
NthOf(positions, k) == CHOOSE a \in positions : Cardinality({b \in positions : b <= a}) = k
Parts ==
  [k \in 1 .. Cardinality(Inhabited) |->
     LET a == NthOf(Inhabited, k) IN Span(Bounds[a], Bounds[a + 1])]

\* Mutant: a unit on the edge belongs to both segments.
ItemsTouching(a) ==
  {u \in DOMAIN units : segs[a].from <= units[u].from /\ units[u].from <= segs[a].to}

\* Session._fragments: the units that begin in a segment, Cap at a time.
ItemsOf(a) ==
  {u \in DOMAIN units : segs[a].from <= units[u].from /\ units[u].from < segs[a].to}
Smallest(S) == CHOOSE u \in S : \A w \in S : u <= w
SegmentItems ==
  UNION {LET mine == ItemsOf(a)
             place(u) == u - Smallest(mine)
         IN  {{w \in mine : place(w) \div Cap = place(u) \div Cap} : u \in mine}
         : a \in DOMAIN segs}
-----------------------------------------------------------------------------
\* TypeOK: the type invariant of the three loops.
SegmenterTypeOK ==
  /\ text \in Seq(Stretch)
  /\ slots \in Nat \ {0}
  /\ phase \in {"units", "pack", "group", "done"}
  /\ size \in Nat
  /\ units \in Seq([from : Nat, to : Nat, blank : BOOLEAN])
  /\ next \in 1 .. Len(units) + 1
  /\ head \in Nat
  /\ open \in [from : Nat, to : Nat]
  /\ segs \in Seq([from : Nat, to : Nat])
  /\ tries \in 1 .. slots
  /\ cuts \in Seq(Nat)

(***************************************************************************)
(* "The segments of a text tile it exactly, with no gap and no overlap",   *)
(* at every step of packing: what is packed, what is open and what is not  *)
(* read yet lie end to end over the text (a blank text has no segments),   *)
(* and so do its units, none of them blank.                                *)
(***************************************************************************)
Tiled ==
  /\ phase # "units" =>
       /\ units # <<>> => Tile(units, size)
       /\ \A u \in DOMAIN units : ~units[u].blank
  /\ phase = "pack" => Tile(Flushed, head)
  /\ phase \in {"group", "done"} =>
       Tile(segs, IF units = <<>> THEN 0 ELSE size)

(***************************************************************************)
(* "Whole structural units": a segment begins and ends on an edge of a     *)
(* unit, or inside one larger than MaxChars, and what it holds stays below *)
(* the target plus one largest unit plus a folded tail.                    *)
(***************************************************************************)
OnUnitEdge(x) ==
  \/ x = size
  \/ \E u \in DOMAIN units :
       \/ x = units[u].from
       \/ units[u].from < x /\ x < units[u].to /\ Chars(units[u]) > MaxChars
SegmentsAreWhole ==
  phase \in {"group", "done"} =>
    \A a \in DOMAIN segs :
      /\ OnUnitEdge(segs[a].from) /\ OnUnitEdge(segs[a].to)
      /\ Chars(segs[a]) < TargetChars + MaxChars + MinChars - 1

(***************************************************************************)
(* Segments cover the text exactly and cut no unit that fits (segment).    *)
(***************************************************************************)
SegmentsTileWhole == Tiled /\ SegmentsAreWhole

(***************************************************************************)
(* Every item is asked for once: the fragments a sweep sends partition the *)
(* units, an oversized one that several segments share included, and none  *)
(* asks for more items than a reply can carry.                             *)
(***************************************************************************)
EachItemOnce ==
  phase \in {"group", "done"} =>
    /\ UNION SegmentItems = DOMAIN units
    /\ \A f, g \in SegmentItems : f # g => f \cap g = {}
    /\ \A f \in SegmentItems : Cardinality(f) <= Cap

(***************************************************************************)
(* "Every character lands in exactly one part", at most `slots` parts,     *)
(* none of them empty, and no cut but on an edge of a segment.             *)
(***************************************************************************)
PartsPartition ==
  phase = "done" =>
    /\ Tile(Parts, size)
    /\ Len(Parts) <= slots
    /\ \A p \in DOMAIN Parts : Parts[p].to \in Ends \cup {size}

(***************************************************************************)
(* Whatever the segments are handed out as, fragments of a sweep or parts  *)
(* of rlm_map, each item and each character is given once.                 *)
(***************************************************************************)
GivenOnce == EachItemOnce /\ PartsPartition
=============================================================================
