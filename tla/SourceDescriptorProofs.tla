------------------------- MODULE SourceDescriptorProofs -------------------------
(***************************************************************************)
(* Proofs about the codec of a source: for every set of descriptors and     *)
(* reports, the fields of a report overlap nowhere unless a product wraps,  *)
(* the state shows of every control the last report that carried it, and    *)
(* only controls of the description ever move.                              *)
(*                                                                         *)
(* Two loops of the code are folds.  FoldLeft is a function chosen among    *)
(* those that satisfy its equation; FoldExists says there is one, and the   *)
(* loops' invariants then follow by induction on how far the loop has come. *)
(***************************************************************************)
EXTENDS SourceDescriptor, WellFoundedInduction, TLAPS

-----------------------------------------------------------------------------
(* Induction and folds *)

Less == {p \in Nat \X Nat : p[1] < p[2]}

\* The order of the naturals as a relation, for WFMin.
LEMMA LessFounded == IsWellFoundedOn(Less, Nat)
<1>1. OpToRel(<, Nat) = Less
  <2>1. OpToRel(<, Nat) = {p \in Nat \X Nat : p[1] < p[2]}
    BY Zenon DEF OpToRel
  <2> QED BY <2>1, Zenon DEF Less
<1> QED BY <1>1, NatLessThanWellFounded, Zenon

LEMMA Smallest ==
  ASSUME NEW T, T \subseteq Nat, T # {}
  PROVE  \E n \in T : \A m \in T : n <= m
<1>1. PICK x \in T : \A y \in T : ~(<<y, x>> \in Less)
  BY WFMin, LessFounded, Zenon
<1>2. \A y \in T : ~(y < x)
  <2> SUFFICES ASSUME NEW y \in T, y < x PROVE FALSE
    OBVIOUS
  <2>1. <<y, x>> \in Less
    BY DEF Less
  <2> QED BY <1>1, <2>1
<1>3. x \in Nat /\ \A y \in T : y \in Nat
  OBVIOUS
<1> QED BY <1>2, <1>3

\* Induction up to a bound, over a set that may depend on the state.
LEMMA UpTo ==
  ASSUME NEW n \in Nat, NEW G, 0 \in G, \A k \in 0..(n - 1) : k \in G => k + 1 \in G
  PROVE  \A k \in 0..n : k \in G
<1> DEFINE T == {k \in 0..n : k \notin G}
<1> SUFFICES ASSUME T # {} PROVE FALSE
  OBVIOUS
<1>1. T \subseteq Nat
  OBVIOUS
<1> HIDE DEF T
<1>2. PICK m \in T : \A k \in T : m <= k
  BY <1>1, Smallest
<1>3. m # 0 /\ m - 1 \in 0..(n - 1) /\ m - 1 \in 0..n /\ ~(m <= m - 1)
  BY <1>2 DEF T
<1>4. m - 1 \in G
  BY <1>2, <1>3 DEF T
<1> QED BY <1>3, <1>4 DEF T

\* Max of a set of positions is one of them.
LEMMA Greatest ==
  ASSUME NEW n \in Nat, NEW s, s \subseteq 1..n, s # {}
  PROVE  Max(s) \in s /\ \A i \in s : i <= Max(s)
<1> DEFINE T == {n - i : i \in s}
<1>1. T \subseteq Nat /\ T # {}
  <2>1. \A i \in s : i \in Int /\ n - i \in Nat
    OBVIOUS
  <2>2. PICK i \in s : TRUE
    OBVIOUS
  <2>3. n - i \in T
    OBVIOUS
  <2> QED BY <2>1, <2>3
<1> HIDE DEF T
<1>2. PICK t \in T : \A u \in T : t <= u
  BY <1>1, Smallest
<1>3. PICK m \in s : t = n - m
  BY DEF T
<1>4. \A i \in s : n - i \in T
  BY DEF T
<1>5. m \in Int /\ \A i \in s : i \in Int
  OBVIOUS
<1>6. \A i \in s : m >= i
  BY <1>2, <1>3, <1>4, <1>5
<1>7. Max(s) \in s /\ \A i \in s : Max(s) >= i
  BY <1>6 DEF Max
<1> QED BY <1>5, <1>7

\* The function a fold chooses, over the prefixes of a sequence of length n.
IsFold(g, n, F, base) ==
  g = [s \in SUBSET (1..n) |->
         IF s = {} THEN base ELSE F[<<g[s \ {Max(s)}], Max(s)>>]]

\* One exists for every function on the values folded: the CHOOSE of
\* MapThenFoldSet has something to choose.
LEMMA FoldExists ==
  ASSUME NEW n \in Nat, NEW V, NEW base \in V, NEW F \in [V \X (1..n) -> V]
  PROVE  \E g \in [SUBSET (1..n) -> V] : IsFold(g, n, F, base)
<1> DEFINE Folds(k) == \E g \in [SUBSET (1..k) -> V] : IsFold(g, k, F, base)
           G == {k \in 0..n : Folds(k)}
<1>1. 0 \in G
  <2> DEFINE g == [s \in SUBSET (1..0) |-> base]
  <2>1. \A s \in SUBSET (1..0) : s = {}
    OBVIOUS
  <2>2. g \in [SUBSET (1..0) -> V]
    OBVIOUS
  <2>3. IsFold(g, 0, F, base)
    BY <2>1 DEF IsFold
  <2> HIDE DEF g
  <2>4. Folds(0)
    BY <2>2, <2>3
  <2> HIDE DEF Folds
  <2> QED BY <2>4
<1>2. ASSUME NEW k \in 0..(n - 1), k \in G
      PROVE  k + 1 \in G
  <2>1. PICK g \in [SUBSET (1..k) -> V] : IsFold(g, k, F, base)
    BY <1>2
  <2> DEFINE last == k + 1
             value(s) == IF last \in s THEN F[<<g[s \ {last}], last>>] ELSE g[s]
             h == [s \in SUBSET (1..last) |-> value(s)]
  <2>2. k \in Nat /\ last \in 1..n /\ last \in 0..n /\ last \in Nat
    OBVIOUS
  <2>3. \A s \in SUBSET (1..last) : s \ {last} \in SUBSET (1..k)
    OBVIOUS
  <2>4. \A s \in SUBSET (1..last) : last \notin s => s \in SUBSET (1..k)
    OBVIOUS
  <2>5. \A s \in SUBSET (1..last) : value(s) \in V
    BY <2>2, <2>3, <2>4
  <2>6. h \in [SUBSET (1..last) -> V]
    BY <2>5
  <2>7. ASSUME NEW s \in SUBSET (1..last)
        PROVE  h[s] = IF s = {} THEN base ELSE F[<<h[s \ {Max(s)}], Max(s)>>]
    <3>0. h[s] = value(s)
      OBVIOUS
    <3>1. CASE last \in s
      <4>1. Max(s) \in s /\ \A i \in s : i <= Max(s)
        BY <2>2, <3>1, Greatest
      <4>2. Max(s) = last
        <5>1. last <= Max(s) /\ Max(s) \in 1..last
          BY <3>1, <4>1
        <5> QED BY <2>2, <5>1
      <4>3. s \ {last} \in SUBSET (1..last) /\ last \notin (s \ {last})
        OBVIOUS
      <4>4. h[s \ {last}] = g[s \ {last}]
        BY <4>3
      <4> HIDE DEF h
      <4> QED BY <3>0, <3>1, <4>2, <4>4
    <3>2. CASE last \notin s
      <4>1. s \in SUBSET (1..k)
        BY <2>4, <3>2
      <4>2. g[s] = IF s = {} THEN base ELSE F[<<g[s \ {Max(s)}], Max(s)>>]
        BY <2>1, <4>1 DEF IsFold
      <4>3. s \ {Max(s)} \in SUBSET (1..last) /\ last \notin (s \ {Max(s)})
        BY <3>2
      <4>4. h[s \ {Max(s)}] = g[s \ {Max(s)}]
        BY <4>3
      <4> HIDE DEF h
      <4> QED BY <3>0, <3>2, <4>2, <4>4
    <3> QED BY <3>1, <3>2
  <2> HIDE DEF value
  <2>8. IsFold(h, last, F, base)
    <3> DEFINE e == [s \in SUBSET (1..last) |->
                       IF s = {} THEN base ELSE F[<<h[s \ {Max(s)}], Max(s)>>]]
    <3>1. h = [s \in SUBSET (1..last) |-> h[s]]
      BY <2>6
    <3> HIDE DEF h
    <3>2. h = e
      BY <2>7, <3>1
    <3> QED BY <3>2, Zenon DEF IsFold
  <2> HIDE DEF h
  <2>9. Folds(last)
    BY <2>6, <2>8
  <2> HIDE DEF Folds
  <2> QED BY <2>2, <2>9
<1> HIDE DEF G
<1>3. \A k \in 0..n : k \in G
  BY <1>1, <1>2, UpTo
<1>4. Folds(n)
  <2> HIDE DEF Folds
  <2> QED BY <1>3 DEF G
<1> QED BY <1>4

-----------------------------------------------------------------------------
(* Types *)

\* Items whose report ids, if valid, are among those of the source.
KnownItems ==
  {item \in Items :
     item.tag = "report_id" /\ item.value \in 1..255 => item.value \in ReportIds}

Globals ==
  [usage_page : Nat, logical_min : Int, logical_max : Int, report_size : Nat,
   report_id : ReportIds, report_count : Nat]

Usages == [page : Nat, usage : Nat]
Locals == [usages : Seq(Usages), min : Seq(Usages), max : Seq(Usages)]

Fields ==
  [id : ReportIds, offset : Nat, size : Nat, min : Int, max : Int,
   kind : {"button", "hat", "axis", "motion", "array"}, index : Nat,
   first : Nat, last : Nat]

Described ==
  [buttons : Nat, hats : Nat, axes : Seq([usage : Nat, unipolar : BOOLEAN]),
   motion : BOOLEAN]

ParserOK ==
  /\ phase \in {"parsing", "refused", "ready"}
  /\ rest \in Seq(KnownItems)
  /\ global \in Globals /\ local \in Locals /\ stack \in Seq(Globals)
  /\ offsets \in [ReportIds -> Nat]
  /\ fields \in Seq(Fields)
  /\ description \in Described
  /\ wrapped \in BOOLEAN

\* What the assumption says of the limits.
LEMMA Limits ==
  /\ ReportIds \subseteq Nat /\ 0 \in ReportIds
  /\ MaxButtons \in Nat /\ MaxHats \in Nat /\ MaxAxes \in Nat
  /\ MaxFieldBits \in Nat /\ AxisBits \in Nat /\ Word \in Nat /\ Word > 0
BY DescriptorAssumption

LEMMA DescriptorItems ==
  ASSUME NEW items \in Descriptors
  PROVE  items \in Seq(KnownItems)
<1>1. items \in Seq(Items)
  BY DescriptorAssumption
<1>2. \A i \in DOMAIN items : items[i] \in KnownItems
  BY <1>1, DescriptorAssumption DEF KnownItems
<1> QED BY <1>1, <1>2

\* Values by tag.
LEMMA ItemTypes ==
  ASSUME NEW item \in KnownItems
  PROVE  /\ item.page \in Nat
         /\ item.tag = "input" => item.value \in InputFlags
         /\ item.tag \in {"logical_min", "logical_max"} => item.value \in Int
         /\ item.tag \in {"usage_page", "report_size", "report_id", "report_count",
                          "usage", "usage_min", "usage_max"} => item.value \in Nat
         /\ item.tag = "report_id" /\ item.value \in 1..255 => item.value \in ReportIds
BY DEF KnownItems, Items

\* Every usage a field is added for is one.
LEMMA UsageTypes ==
  ASSUME global \in Globals, local \in Locals
  PROVE  /\ \A item \in KnownItems :
              item.tag \in {"usage", "usage_min", "usage_max"} =>
                UsageFromItem(item) \in Usages
         /\ \A i \in Nat : UsageForIndex(i) \in Usages
<1>1. /\ global.usage_page \in Nat /\ local.usages \in Seq(Usages)
      /\ local.min \in Seq(Usages) /\ local.max \in Seq(Usages)
  BY DEF Globals, Locals
<1>2. ASSUME NEW item \in KnownItems, item.tag \in {"usage", "usage_min", "usage_max"}
      PROVE  UsageFromItem(item) \in Usages
  BY <1>1, <1>2, ItemTypes DEF UsageFromItem, Usages
<1>3. ASSUME NEW i \in Nat
      PROVE  UsageForIndex(i) \in Usages
  <2>1. CASE i < Len(local.usages)
    <3>1. i + 1 \in DOMAIN local.usages
      BY <1>1, <2>1
    <3>2. local.usages[i + 1] \in Usages
      BY <1>1, <3>1
    <3> QED BY <2>1, <3>2 DEF UsageForIndex
  <2>2. CASE ~(i < Len(local.usages))
    <3>1. local.min # <<>> => local.min[1] \in Usages
      BY <1>1
    <3>2. local.min # <<>> => local.min[1].page \in Nat /\ local.min[1].usage \in Nat
      BY <3>1 DEF Usages
    <3>3. [NoUsage EXCEPT !.page = global.usage_page] \in Usages
      BY <1>1 DEF NoUsage, Usages
    <3>4. local.min # <<>> =>
            [page |-> local.min[1].page, usage |-> local.min[1].usage + i] \in Usages
      BY <3>2 DEF Usages
    <3> QED BY <2>2, <3>3, <3>4 DEF UsageForIndex
  <2> QED BY <2>1, <2>2
<1> QED BY <1>2, <1>3

\* The parser's states after a global or a local item.
LEMMA GlobalTypes ==
  ASSUME global \in Globals, NEW item \in KnownItems, item.tag \in GlobalTags,
         ~(item.tag = "report_id" /\ item.value \notin 1..255)
  PROVE  [global EXCEPT ![item.tag] = item.value] \in Globals
<1>1. CASE item.tag = "usage_page"
  BY <1>1, ItemTypes DEF Globals
<1>2. CASE item.tag = "logical_min"
  BY <1>2, ItemTypes DEF Globals
<1>3. CASE item.tag = "logical_max"
  BY <1>3, ItemTypes DEF Globals
<1>4. CASE item.tag = "report_size"
  BY <1>4, ItemTypes DEF Globals
<1>5. CASE item.tag = "report_id"
  BY <1>5, ItemTypes DEF Globals
<1>6. CASE item.tag = "report_count"
  BY <1>6, ItemTypes DEF Globals
<1> QED BY <1>1, <1>2, <1>3, <1>4, <1>5, <1>6 DEF GlobalTags

LEMMA LocalTypes ==
  ASSUME global \in Globals, local \in Locals, NEW item \in KnownItems
  PROVE  /\ NoLocal \in Locals
         /\ item.tag = "usage" =>
              [local EXCEPT !.usages = Append(@, UsageFromItem(item))] \in Locals
         /\ item.tag = "usage_min" => [local EXCEPT !.min = <<UsageFromItem(item)>>] \in Locals
         /\ item.tag = "usage_max" => [local EXCEPT !.max = <<UsageFromItem(item)>>] \in Locals
<1>1. NoLocal \in Locals
  BY DEF NoLocal, Locals
<1>2. item.tag \in {"usage", "usage_min", "usage_max"} =>
        /\ UsageFromItem(item) \in Usages
        /\ <<UsageFromItem(item)>> \in Seq(Usages)
        /\ Append(local.usages, UsageFromItem(item)) \in Seq(Usages)
  BY UsageTypes DEF Locals
<1> QED BY <1>1, <1>2 DEF Locals

\* Max and Min of two counts.
LEMMA MaxOfTwo ==
  ASSUME NEW a \in Nat, NEW b \in Nat
  PROVE  /\ Max({a, b}) \in Nat /\ Max({a, b}) >= a /\ Max({a, b}) >= b
         /\ Max({a, b}) \in {a, b}
         /\ Min({a, b}) \in Nat /\ Min({a, b}) \in {a, b}
         /\ a <= Min({a, b}) \/ b <= Min({a, b})
<1>1. \E x \in {a, b} : \A y \in {a, b} : x >= y
  OBVIOUS
<1>2. \E x \in {a, b} : \A y \in {a, b} : x <= y
  OBVIOUS
<1>3. Max({a, b}) \in {a, b} /\ \A y \in {a, b} : Max({a, b}) >= y
  BY <1>1 DEF Max
<1>4. Min({a, b}) \in {a, b} /\ \A y \in {a, b} : Min({a, b}) <= y
  BY <1>2 DEF Min
<1> QED BY <1>3, <1>4

-----------------------------------------------------------------------------
(* The layout.  Fields of a report stand in the order in which they were     *)
(* added, each behind the one before, and end where the next item starts.    *)

Layout(fs, ends) ==
  /\ \A i \in DOMAIN fs : fs[i].offset + fs[i].size <= ends[fs[i].id]
  /\ \A i, j \in DOMAIN fs :
       i < j /\ fs[i].id = fs[j].id => fs[i].offset + fs[i].size <= fs[j].offset

\* A field's control is one the description counts.
Counted(f, d) ==
  CASE f.kind = "button" -> f.index < d.buttons
    [] f.kind = "hat" -> f.index < d.hats
    [] f.kind = "axis" -> f.index < Len(d.axes)
    [] f.kind = "motion" -> d.motion
    [] f.kind = "array" -> f.last <= d.buttons \/ MaxButtons <= d.buttons

Declared(fs, d) == \A i \in DOMAIN fs : Counted(fs[i], d)

\* A description only grows.
Grown(d, e) ==
  /\ d.buttons <= e.buttons /\ d.hats <= e.hats /\ Len(d.axes) <= Len(e.axes)
  /\ d.motion => e.motion

\* What was counted stays counted.
LEMMA CountedGrows ==
  ASSUME NEW d \in Described, NEW e \in Described, Grown(d, e), NEW f \in Fields,
         Counted(f, d)
  PROVE  Counted(f, e)
<1>1. /\ d.buttons \in Nat /\ e.buttons \in Nat /\ d.hats \in Nat /\ e.hats \in Nat
      /\ Len(d.axes) \in Nat /\ Len(e.axes) \in Nat /\ MaxButtons \in Nat
      /\ f.index \in Nat /\ f.last \in Nat
      /\ f.kind \in {"button", "hat", "axis", "motion", "array"}
  BY Limits DEF Described, Fields
<1> DEFINE la == Len(d.axes)
           lb == Len(e.axes)
<1>2. CASE f.kind = "button"
  BY <1>1, <1>2 DEF Counted, Grown
<1>3. CASE f.kind = "hat"
  BY <1>1, <1>3 DEF Counted, Grown
<1>4. CASE f.kind = "axis"
  BY <1>1, <1>4 DEF Counted, Grown
<1>5. CASE f.kind = "motion"
  BY <1>1, <1>5 DEF Counted, Grown
<1>6. CASE f.kind = "array"
  BY <1>1, <1>6 DEF Counted, Grown
<1> QED BY <1>1, <1>2, <1>3, <1>4, <1>5, <1>6

LEMMA FieldTypes ==
  ASSUME NEW f \in Fields
  PROVE  /\ f.id \in ReportIds /\ f.offset \in Nat /\ f.size \in Nat
         /\ f.index \in Nat /\ f.first \in Nat /\ f.last \in Nat
         /\ f.kind \in {"button", "hat", "axis", "motion", "array"}
BY DEF Fields

\* One more field, at the end of what its report has so far.
LEMMA LayoutAppend ==
  ASSUME NEW fs \in Seq(Fields), NEW ends \in [ReportIds -> Nat], Layout(fs, ends),
         NEW more \in [ReportIds -> Nat], NEW f \in Fields,
         \A id \in ReportIds : ends[id] <= more[id],
         ends[f.id] <= f.offset, f.offset + f.size <= more[f.id]
  PROVE  /\ Append(fs, f) \in Seq(Fields)
         /\ Layout(Append(fs, f), more)
<1> DEFINE gs == Append(fs, f)
<1>1. /\ gs \in Seq(Fields) /\ Len(fs) \in Nat
      /\ DOMAIN fs = 1..Len(fs) /\ DOMAIN gs = 1..(Len(fs) + 1)
      /\ gs[Len(fs) + 1] = f /\ \A i \in 1..Len(fs) : gs[i] = fs[i]
  OBVIOUS
<1>2. \A i \in 1..Len(fs) :
        fs[i].id \in ReportIds /\ fs[i].offset \in Nat /\ fs[i].size \in Nat
  <2>1. \A i \in 1..Len(fs) : fs[i] \in Fields
    OBVIOUS
  <2> QED BY <2>1, FieldTypes
<1>3. f.id \in ReportIds /\ f.offset \in Nat /\ f.size \in Nat
  BY FieldTypes
<1> HIDE DEF gs
<1>4. ASSUME NEW i \in DOMAIN gs
      PROVE  gs[i].offset + gs[i].size <= more[gs[i].id]
  <2>1. CASE i = Len(fs) + 1
    BY <1>1, <2>1
  <2>2. CASE i \in 1..Len(fs)
    <3>1. fs[i].offset + fs[i].size <= ends[fs[i].id]
      BY <1>1, <2>2 DEF Layout
    <3>2. ends[fs[i].id] <= more[fs[i].id] /\ ends[fs[i].id] \in Nat /\ more[fs[i].id] \in Nat
      BY <1>2, <2>2
    <3> QED BY <1>1, <1>2, <2>2, <3>1, <3>2
  <2> QED BY <1>1, <2>1, <2>2
<1>5. ASSUME NEW i \in DOMAIN gs, NEW j \in DOMAIN gs, i < j, gs[i].id = gs[j].id
      PROVE  gs[i].offset + gs[i].size <= gs[j].offset
  <2>1. i \in 1..Len(fs)
    BY <1>1, <1>5
  <2>2. CASE j = Len(fs) + 1
    <3>1. fs[i].offset + fs[i].size <= ends[f.id] /\ ends[f.id] \in Nat
      BY <1>1, <1>3, <1>5, <2>1, <2>2 DEF Layout
    <3> QED BY <1>1, <1>2, <1>3, <2>1, <2>2, <3>1
  <2>3. CASE j \in 1..Len(fs)
    BY <1>1, <1>5, <2>1, <2>3 DEF Layout
  <2> QED BY <1>1, <2>2, <2>3
<1>6. Layout(gs, more)
  BY <1>4, <1>5 DEF Layout
<1> QED BY <1>1, <1>6 DEF gs

\* The same fields, with more room behind them.
LEMMA LayoutGrows ==
  ASSUME NEW fs \in Seq(Fields), NEW ends \in [ReportIds -> Nat], Layout(fs, ends),
         NEW more \in [ReportIds -> Nat], \A id \in ReportIds : ends[id] <= more[id]
  PROVE  Layout(fs, more)
<1> SUFFICES ASSUME NEW i \in DOMAIN fs
             PROVE  fs[i].offset + fs[i].size <= more[fs[i].id]
  BY DEF Layout
<1>1. fs[i].id \in ReportIds /\ fs[i].offset \in Nat /\ fs[i].size \in Nat
  <2>1. fs[i] \in Fields
    OBVIOUS
  <2> QED BY <2>1, FieldTypes
<1>2. fs[i].offset + fs[i].size <= ends[fs[i].id]
  BY DEF Layout
<1> QED BY <1>1, <1>2

\* One more field, counted by the description that comes with it.
LEMMA DeclaredAppend ==
  ASSUME NEW fs \in Seq(Fields), NEW f \in Fields, NEW d \in Described, NEW e \in Described,
         Declared(fs, d), Grown(d, e), Counted(f, e)
  PROVE  Declared(Append(fs, f), e)
<1> DEFINE gs == Append(fs, f)
<1>1. /\ DOMAIN gs = 1..(Len(fs) + 1) /\ DOMAIN fs = 1..Len(fs) /\ Len(fs) \in Nat
      /\ gs[Len(fs) + 1] = f /\ \A i \in 1..Len(fs) : gs[i] = fs[i] /\ fs[i] \in Fields
  OBVIOUS
<1> HIDE DEF gs
<1>2. \A i \in 1..Len(fs) : Counted(fs[i], e)
  BY <1>1, CountedGrows DEF Declared
<1>3. Declared(gs, e)
  BY <1>1, <1>2 DEF Declared
<1> QED BY <1>3 DEF gs

-----------------------------------------------------------------------------
(* What an Input item adds *)

Accumulated == [fields : Seq(Fields), description : Described]

\* acc with one field more, for report_size bits at offset, and its control.
AddsOne(acc, new, offset) ==
  \E f \in Fields, d \in Described :
    /\ new = [fields |-> Append(acc.fields, f), description |-> d]
    /\ f.id = global.report_id /\ f.offset = offset /\ f.size = global.report_size
    /\ Grown(acc.description, d) /\ Counted(f, d)

\* add_variable_field adds at most one field, for the bits it was given, and
\* counts it.
LEMMA AddsAtMostOne ==
  ASSUME global \in Globals, NEW acc \in Accumulated, NEW usage \in Usages, NEW offset \in Nat
  PROVE  LET new == AddVariableField(acc, usage, offset)
         IN  new = acc \/ AddsOne(acc, new, offset)
<1> DEFINE new == AddVariableField(acc, usage, offset)
           d == acc.description
           u == usage.usage
           button == usage.page = ButtonPage /\ u \in 1..MaxButtons
           hat == usage = [page |-> Desktop, usage |-> HatSwitch] /\ d.hats < MaxHats
           axis == usage.page = Desktop /\ u \in AxisUsages /\ Len(d.axes) < MaxAxes
           motion == usage.page = SensorPage /\ u \in AccelerationUsages
<1> SUFFICES new = acc \/ AddsOne(acc, new, offset)
  OBVIOUS
<1>1. /\ usage.page \in Nat /\ u \in Nat
      /\ d \in Described /\ d.buttons \in Nat /\ d.hats \in Nat /\ Len(d.axes) \in Nat
      /\ d.axes \in Seq([usage : Nat, unipolar : BOOLEAN]) /\ d.motion \in BOOLEAN
      /\ acc.fields \in Seq(Fields)
  BY DEF Usages, Accumulated, Described
<1>2. Desktop # ButtonPage /\ SensorPage # ButtonPage /\ Desktop # SensorPage
      /\ HatSwitch \notin AxisUsages
  BY DEF Desktop, ButtonPage, SensorPage, HatSwitch, AxisUsages
<1>3. hat => usage.page = Desktop /\ u = HatSwitch
  OBVIOUS
<1>4. CASE ~Readable
  BY <1>4 DEF AddVariableField
<1>5. CASE Readable /\ button
  <2> DEFINE f == Field("button", u - 1, offset, 0, 0)
             e == [d EXCEPT !.buttons = Max({@, u})]
  <2>1. new = [fields |-> Append(acc.fields, f), description |-> e]
    BY <1>2, <1>3, <1>5 DEF AddVariableField
  <2>2. u - 1 \in Nat /\ u - 1 < u
    BY <1>5, Limits
  <2>3. Max({d.buttons, u}) \in Nat /\ Max({d.buttons, u}) >= d.buttons /\ Max({d.buttons, u}) >= u
    BY <1>1, MaxOfTwo
  <2>4. /\ e \in Described /\ e.buttons = Max({d.buttons, u}) /\ e.hats = d.hats
        /\ e.axes = d.axes /\ e.motion = d.motion
    BY <1>1, <2>3 DEF Described
  <2>5. f \in Fields /\ f.kind = "button" /\ f.index = u - 1
        /\ f.id = global.report_id /\ f.offset = offset /\ f.size = global.report_size
    BY <2>2 DEF Field, Fields, Globals
  <2> HIDE DEF f, e
  <2>6. Grown(d, e)
    BY <1>1, <2>3, <2>4 DEF Grown
  <2>7. Counted(f, e)
    BY <1>1, <2>2, <2>3, <2>4, <2>5 DEF Counted
  <2> QED BY <2>1, <2>4, <2>5, <2>6, <2>7 DEF AddsOne
<1>6. CASE Readable /\ ~button /\ hat
  <2> DEFINE f == Field("hat", d.hats, offset, 0, 0)
             e == [d EXCEPT !.hats = @ + 1]
  <2>1. new = [fields |-> Append(acc.fields, f), description |-> e]
    BY <1>2, <1>3, <1>6 DEF AddVariableField
  <2>2. /\ e \in Described /\ e.buttons = d.buttons /\ e.hats = d.hats + 1
        /\ e.axes = d.axes /\ e.motion = d.motion
    <3>1. d.hats + 1 \in Nat
      BY <1>1
    <3> QED BY <1>1, <3>1 DEF Described
  <2>3. f \in Fields /\ f.kind = "hat" /\ f.index = d.hats
        /\ f.id = global.report_id /\ f.offset = offset /\ f.size = global.report_size
    BY <1>1 DEF Field, Fields, Globals
  <2> HIDE DEF f, e
  <2>4. Grown(d, e) /\ Counted(f, e)
    BY <1>1, <2>2, <2>3 DEF Grown, Counted
  <2> QED BY <2>1, <2>2, <2>3, <2>4 DEF AddsOne
<1>7. CASE Readable /\ ~button /\ ~hat /\ axis
  <2> DEFINE f == Field("axis", Len(d.axes), offset, 0, 0)
             more == Append(d.axes, [usage |-> u, unipolar |-> global.logical_min >= 0])
             e == [d EXCEPT !.axes = more]
  <2>1. new = [fields |-> Append(acc.fields, f), description |-> e]
    BY <1>2, <1>3, <1>7 DEF AddVariableField
  <2>2. more \in Seq([usage : Nat, unipolar : BOOLEAN]) /\ Len(more) = Len(d.axes) + 1
    <3>1. [usage |-> u, unipolar |-> global.logical_min >= 0]
            \in [usage : Nat, unipolar : BOOLEAN]
      BY <1>1 DEF Globals
    <3> QED BY <1>1, <3>1
  <2> HIDE DEF more
  <2>3. /\ e \in Described /\ e.buttons = d.buttons /\ e.hats = d.hats
        /\ e.axes = more /\ e.motion = d.motion
    BY <1>1, <2>2 DEF Described
  <2>4. f \in Fields /\ f.kind = "axis" /\ f.index = Len(d.axes)
        /\ f.id = global.report_id /\ f.offset = offset /\ f.size = global.report_size
    BY <1>1 DEF Field, Fields, Globals
  <2> HIDE DEF f, e
  <2>5. Grown(d, e) /\ Counted(f, e)
    <3>1. Len(e.axes) = Len(d.axes) + 1
      BY <2>2, <2>3
    <3>2. f.index < Len(e.axes) /\ Len(d.axes) <= Len(e.axes)
      BY <1>1, <2>4, <3>1
    <3>3. Grown(d, e)
      BY <1>1, <2>3, <3>2 DEF Grown
    <3>4. Counted(f, e)
      BY <2>4, <3>2 DEF Counted
    <3> QED BY <3>3, <3>4
  <2> QED BY <2>1, <2>3, <2>4, <2>5 DEF AddsOne
<1>8. CASE Readable /\ ~button /\ ~hat /\ ~axis /\ motion
  <2> DEFINE f == Field("motion", u - 1107, offset, 0, 0)
             e == [d EXCEPT !.motion = TRUE]
  <2>1. new = [fields |-> Append(acc.fields, f), description |-> e]
    BY <1>2, <1>3, <1>8 DEF AddVariableField
  <2>2. /\ e \in Described /\ e.buttons = d.buttons /\ e.hats = d.hats
        /\ e.axes = d.axes /\ e.motion
    BY <1>1 DEF Described
  <2>3. u - 1107 \in Nat
    BY <1>1, <1>8 DEF AccelerationUsages
  <2>4. f \in Fields /\ f.kind = "motion"
        /\ f.id = global.report_id /\ f.offset = offset /\ f.size = global.report_size
    BY <2>3 DEF Field, Fields, Globals
  <2> HIDE DEF f, e
  <2>5. Grown(d, e) /\ Counted(f, e)
    BY <1>1, <2>2, <2>4 DEF Grown, Counted
  <2> QED BY <2>1, <2>2, <2>4, <2>5 DEF AddsOne
<1>9. CASE Readable /\ ~button /\ ~hat /\ ~axis /\ ~motion
  BY <1>9 DEF AddVariableField
<1> QED BY <1>4, <1>5, <1>6, <1>7, <1>8, <1>9

\* The fold of AddVariableFields, and its value after k of the usages.
VariableStep(acc, i, offset) ==
  AddVariableField(acc, UsageForIndex(i), offset + i * global.report_size)

VariableIndexes == [i \in 1..global.report_count |-> i - 1]

IsVariableFold(g, offset) ==
  g = [s \in SUBSET DOMAIN VariableIndexes |->
         IF s = {} THEN [fields |-> fields, description |-> description]
         ELSE VariableStep(g[s \ {Max(s)}], VariableIndexes[Max(s)], offset)]

VariableFold(offset) == CHOOSE g : IsVariableFold(g, offset)

\* What AddVariableFields leaves is the fold's last value.
LEMMA VariableFieldsFold ==
  ASSUME NEW offset, AddVariableFields(offset)
  PROVE  LET all == VariableFold(offset)[DOMAIN VariableIndexes]
         IN  fields' = all.fields /\ description' = all.description
BY Zenon DEF AddVariableFields, FoldLeft, MapThenFoldSet, VariableFold, IsVariableFold,
   VariableIndexes, VariableStep

\* The prefixes 1..k the fold runs over.
LEMMA PrefixLemma ==
  ASSUME NEW n \in Nat, NEW k \in 1..n
  PROVE  /\ 1..k \in SUBSET (1..n) /\ 1..k # {} /\ (1..k) \ {k} = 1..(k - 1)
         /\ Max(1..k) = k
<1>1. k \in Nat /\ 1..k # {} /\ 1..k \subseteq 1..n /\ k \in 1..k
  OBVIOUS
<1>2. Max(1..k) \in 1..k /\ \A i \in 1..k : i <= Max(1..k)
  BY <1>1, Greatest
<1>3. Max(1..k) = k
  <2>1. k <= Max(1..k) /\ Max(1..k) <= k /\ Max(1..k) \in Int
    BY <1>1, <1>2
  <2> QED BY <2>1
<1> QED BY <1>1, <1>3

\* Products, for leaves that treat them as numbers of their own.
LEMMA Product ==
  ASSUME NEW a \in Nat, NEW b \in Nat, NEW c \in Nat, a <= b
  PROVE  /\ a * c \in Nat /\ b * c \in Nat /\ a * c <= b * c
         /\ (a + 1) * c = a * c + c
OBVIOUS

LEMMA VariableStepType ==
  ASSUME global \in Globals, local \in Locals, NEW offset \in Nat, NEW i \in Nat,
         NEW acc \in Accumulated
  PROVE  VariableStep(acc, i, offset) \in Accumulated
<1>1. UsageForIndex(i) \in Usages
  BY UsageTypes
<1>2. offset + i * global.report_size \in Nat
  BY Product DEF Globals
<1>3. VariableStep(acc, i, offset) = acc
      \/ AddsOne(acc, VariableStep(acc, i, offset), offset + i * global.report_size)
  BY <1>1, <1>2, AddsAtMostOne DEF VariableStep
<1>4. \A f \in Fields : Append(acc.fields, f) \in Seq(Fields)
  BY DEF Accumulated
<1> QED BY <1>3, <1>4 DEF AddsOne, Accumulated

\* The fold goes usage by usage.
LEMMA VariableFoldSteps ==
  ASSUME global \in Globals, local \in Locals, fields \in Seq(Fields),
         description \in Described, NEW offset \in Nat
  PROVE  LET g == VariableFold(offset)
             n == global.report_count
         IN  /\ g[1..0] = [fields |-> fields, description |-> description]
             /\ \A k \in 1..n : g[1..k] = VariableStep(g[1..(k - 1)], k - 1, offset)
<1> DEFINE n == global.report_count
           V == Accumulated
           base == [fields |-> fields, description |-> description]
           F == [p \in V \X (1..n) |-> VariableStep(p[1], p[2] - 1, offset)]
<1>1. n \in Nat /\ base \in V
  BY DEF Globals, Accumulated
<1>2. F \in [V \X (1..n) -> V]
  <2>1. ASSUME NEW p \in V \X (1..n)
        PROVE  VariableStep(p[1], p[2] - 1, offset) \in V
    <3>1. p[1] \in Accumulated /\ p[2] - 1 \in Nat
      BY <1>1
    <3> QED BY <3>1, VariableStepType
  <2> QED BY <2>1
<1>3. \A v \in V, k \in 1..n : F[<<v, k>>] = VariableStep(v, k - 1, offset)
  OBVIOUS
<1>4. DOMAIN VariableIndexes = 1..n /\ \A k \in 1..n : VariableIndexes[k] = k - 1
  BY DEF VariableIndexes
<1> HIDE DEF n, V, base, F
<1>5. PICK g \in [SUBSET (1..n) -> V] : IsFold(g, n, F, base)
  BY <1>1, <1>2, FoldExists
<1>6. IsVariableFold(g, offset)
  <2> DEFINE e(s) == IF s = {} THEN base ELSE F[<<g[s \ {Max(s)}], Max(s)>>]
             d(s) == IF s = {} THEN base
                     ELSE VariableStep(g[s \ {Max(s)}], VariableIndexes[Max(s)], offset)
  <2>1. ASSUME NEW s \in SUBSET (1..n)
        PROVE  e(s) = d(s)
    <3>1. CASE s # {}
      <4>1. Max(s) \in 1..n
        BY <1>1, <3>1, Greatest
      <4>2. g[s \ {Max(s)}] \in V
        OBVIOUS
      <4> QED BY <1>3, <1>4, <3>1, <4>1, <4>2
    <3> QED BY <3>1
  <2>2. g = [s \in SUBSET (1..n) |-> e(s)]
    BY <1>5, Zenon DEF IsFold
  <2> HIDE DEF e, d
  <2>3. g = [s \in SUBSET (1..n) |-> d(s)]
    BY <2>1, <2>2
  <2>4. g = [s \in SUBSET DOMAIN VariableIndexes |-> d(s)]
    BY <1>4, <2>3
  <2> QED BY <2>4, Zenon DEF IsVariableFold, d, base
<1> DEFINE h == VariableFold(offset)
<1>7. IsVariableFold(h, offset)
  BY <1>6, Zenon DEF VariableFold
<1> HIDE DEF h
<1>8. ASSUME NEW s \in SUBSET (1..n)
      PROVE  h[s] = IF s = {} THEN base
                    ELSE VariableStep(h[s \ {Max(s)}], VariableIndexes[Max(s)], offset)
  <2> DEFINE d(t) == IF t = {} THEN base
                     ELSE VariableStep(h[t \ {Max(t)}], VariableIndexes[Max(t)], offset)
  <2>1. h = [t \in SUBSET DOMAIN VariableIndexes |-> d(t)]
    BY <1>7, Zenon DEF IsVariableFold, base
  <2> HIDE DEF d
  <2>2. h[s] = d(s)
    BY <1>4, <2>1
  <2> QED BY <2>2, Zenon DEF d
<1>9. h[1..0] = base
  <2>1. 1..0 = {} /\ 1..0 \in SUBSET (1..n)
    OBVIOUS
  <2> QED BY <1>8, <2>1
<1>10. ASSUME NEW k \in 1..n
       PROVE  h[1..k] = VariableStep(h[1..(k - 1)], k - 1, offset)
  <2>1. /\ 1..k \in SUBSET (1..n) /\ 1..k # {} /\ (1..k) \ {k} = 1..(k - 1)
        /\ Max(1..k) = k
    BY <1>1, PrefixLemma
  <2> QED BY <1>4, <1>8, <2>1
<1> QED BY <1>9, <1>10 DEF h, n, base

\* The end of the fields of every report while an item adds some, k of them
\* passed.
EndsAt(k) ==
  [offsets EXCEPT ![global.report_id] = @ + k * global.report_size]

LEMMA EndsLemma ==
  ASSUME global \in Globals, offsets \in [ReportIds -> Nat], NEW k \in Nat
  PROVE  /\ EndsAt(k) \in [ReportIds -> Nat]
         /\ EndsAt(k)[global.report_id] = offsets[global.report_id] + k * global.report_size
         /\ EndsAt(k + 1)[global.report_id]
              = offsets[global.report_id] + k * global.report_size + global.report_size
         /\ \A id \in ReportIds : EndsAt(k)[id] <= EndsAt(k + 1)[id]
         /\ EndsAt(0) = offsets
<1>1. /\ global.report_id \in ReportIds /\ global.report_size \in Nat
      /\ offsets[global.report_id] \in Nat
      /\ \A id \in ReportIds : offsets[id] \in Nat
  BY DEF Globals
<1>2. /\ k * global.report_size \in Nat /\ (k + 1) * global.report_size \in Nat
      /\ (k + 1) * global.report_size = k * global.report_size + global.report_size
      /\ 0 * global.report_size = 0
  BY <1>1, Product
<1> DEFINE a == k * global.report_size
           b == (k + 1) * global.report_size
           id == global.report_id
<1>3. EndsAt(k) = [offsets EXCEPT ![id] = @ + a] /\ EndsAt(k + 1) = [offsets EXCEPT ![id] = @ + b]
  BY DEF EndsAt
<1>4. EndsAt(0) = offsets
  BY <1>1, <1>2 DEF EndsAt
<1>5. a \in Nat /\ b \in Nat /\ b = a + global.report_size /\ a <= b
  BY <1>1, <1>2
<1> HIDE DEF a, b
<1> HIDE DEF id
<1>6. ASSUME NEW c \in Nat, NEW o, o = [offsets EXCEPT ![id] = @ + c]
      PROVE  /\ o \in [ReportIds -> Nat] /\ o[id] = offsets[id] + c
             /\ \A x \in ReportIds : x # id => o[x] = offsets[x]
  <2>1. id \in ReportIds /\ offsets[id] + c \in Nat
    BY <1>1 DEF id
  <2> QED BY <1>6, <2>1
<1>7. /\ EndsAt(k) \in [ReportIds -> Nat] /\ EndsAt(k)[id] = offsets[id] + a
      /\ EndsAt(k + 1)[id] = offsets[id] + b
      /\ EndsAt(k + 1) \in [ReportIds -> Nat]
      /\ \A x \in ReportIds : x # id =>
           EndsAt(k)[x] = offsets[x] /\ EndsAt(k + 1)[x] = offsets[x]
  BY <1>3, <1>5, <1>6
<1> USE DEF id
<1>8. EndsAt(k + 1)[id] = offsets[id] + a + global.report_size
  BY <1>1, <1>5, <1>7
<1>9. ASSUME NEW x \in ReportIds
      PROVE  EndsAt(k)[x] <= EndsAt(k + 1)[x]
  BY <1>1, <1>5, <1>7
<1> QED BY <1>4, <1>7, <1>8, <1>9 DEF a

\* One usage keeps the layout, one size further.
LEMMA OneMore ==
  ASSUME global \in Globals, local \in Locals, offsets \in [ReportIds -> Nat],
         NEW acc \in Accumulated, NEW k \in Nat,
         Layout(acc.fields, EndsAt(k)) \/ wrapped, Declared(acc.fields, acc.description)
  PROVE  LET new == VariableStep(acc, k, offsets[global.report_id])
         IN  /\ new \in Accumulated /\ Declared(new.fields, new.description)
             /\ Layout(new.fields, EndsAt(k + 1)) \/ wrapped
<1> DEFINE offset == offsets[global.report_id]
           at == offset + k * global.report_size
           new == VariableStep(acc, k, offset)
<1>1. /\ global.report_id \in ReportIds /\ global.report_size \in Nat /\ offset \in Nat
      /\ UsageForIndex(k) \in Usages
  BY UsageTypes DEF Globals
<1>2. at \in Nat
  BY <1>1, Product
<1>3. new \in Accumulated
  BY <1>1, VariableStepType
<1>4. new = acc \/ AddsOne(acc, new, at)
  BY <1>1, <1>2, AddsAtMostOne DEF VariableStep
<1>5. acc.fields \in Seq(Fields) /\ acc.description \in Described
  BY DEF Accumulated
<1> HIDE DEF new, at, offset
<1>6. CASE new = acc
  <2>1. /\ EndsAt(k) \in [ReportIds -> Nat] /\ EndsAt(k + 1) \in [ReportIds -> Nat]
        /\ \A id \in ReportIds : EndsAt(k)[id] <= EndsAt(k + 1)[id]
    BY EndsLemma
  <2>2. Layout(acc.fields, EndsAt(k + 1)) \/ wrapped
    BY <1>5, <2>1, LayoutGrows
  <2> QED BY <1>3, <1>6, <2>2 DEF new, offset
<1>7. CASE AddsOne(acc, new, at)
  <2>1. PICK f \in Fields, d \in Described :
          /\ new = [fields |-> Append(acc.fields, f), description |-> d]
          /\ f.id = global.report_id /\ f.offset = at /\ f.size = global.report_size
          /\ Grown(acc.description, d) /\ Counted(f, d)
    BY <1>7 DEF AddsOne
  <2>2. new.fields = Append(acc.fields, f) /\ new.description = d
    BY <2>1
  <2>3. Declared(Append(acc.fields, f), d)
    BY <1>5, <2>1, DeclaredAppend
  <2>4. Layout(Append(acc.fields, f), EndsAt(k + 1)) \/ wrapped
    <3> SUFFICES ASSUME ~wrapped PROVE Layout(Append(acc.fields, f), EndsAt(k + 1))
      OBVIOUS
    <3>1. /\ EndsAt(k) \in [ReportIds -> Nat] /\ EndsAt(k + 1) \in [ReportIds -> Nat]
          /\ \A id \in ReportIds : EndsAt(k)[id] <= EndsAt(k + 1)[id]
      BY EndsLemma
    <3>2. EndsAt(k)[f.id] = at /\ EndsAt(k + 1)[f.id] = at + global.report_size
      BY <2>1, EndsLemma DEF at, offset
    <3>3. EndsAt(k)[f.id] <= f.offset /\ f.offset + f.size <= EndsAt(k + 1)[f.id]
      BY <1>1, <1>2, <2>1, <3>2
    <3> QED BY <1>5, <3>1, <3>3, LayoutAppend
  <2> QED BY <1>3, <2>2, <2>3, <2>4 DEF new, offset
<1> QED BY <1>4, <1>6, <1>7

\* What the variable fields of an item leave.
LEMMA VariablesAdded ==
  ASSUME ParserOK, Layout(fields, offsets) \/ wrapped, Declared(fields, description),
         AddVariableFields(offsets[global.report_id])
  PROVE  /\ fields' \in Seq(Fields) /\ description' \in Described
         /\ Declared(fields', description')
         /\ Layout(fields', EndsAt(global.report_count)) \/ wrapped
<1> DEFINE offset == offsets[global.report_id]
           n == global.report_count
           g == VariableFold(offset)
           Good(k) == /\ g[1..k] \in Accumulated
                      /\ Declared(g[1..k].fields, g[1..k].description)
                      /\ Layout(g[1..k].fields, EndsAt(k)) \/ wrapped
           G == {k \in 0..n : Good(k)}
<1>1. /\ global \in Globals /\ local \in Locals /\ offsets \in [ReportIds -> Nat]
      /\ fields \in Seq(Fields) /\ description \in Described /\ n \in Nat /\ offset \in Nat
  BY DEF ParserOK, Globals
<1>2. /\ g[1..0] = [fields |-> fields, description |-> description]
      /\ \A k \in 1..n : g[1..k] = VariableStep(g[1..(k - 1)], k - 1, offset)
  BY <1>1, VariableFoldSteps
<1>3. fields' = g[1..n].fields /\ description' = g[1..n].description
  <2>1. DOMAIN VariableIndexes = 1..n
    BY DEF VariableIndexes
  <2> QED BY <2>1, VariableFieldsFold
<1> HIDE DEF offset, n, g
<1>4. Good(0)
  BY <1>1, <1>2, EndsLemma DEF Accumulated
<1>5. ASSUME NEW k \in 0..(n - 1), Good(k)
      PROVE  Good(k + 1)
  <2>1. k + 1 \in 1..n /\ (k + 1) - 1 = k /\ k \in Nat
    BY <1>1
  <2>2. g[1..(k + 1)] = VariableStep(g[1..k], k, offset)
    BY <1>2, <2>1
  <2> DEFINE acc == g[1..k]
  <2> HIDE DEF acc
  <2>3. /\ acc \in Accumulated /\ Declared(acc.fields, acc.description)
        /\ Layout(acc.fields, EndsAt(k)) \/ wrapped
    BY <1>5 DEF acc
  <2> DEFINE new == VariableStep(acc, k, offset)
  <2>4. /\ new \in Accumulated /\ Declared(new.fields, new.description)
        /\ Layout(new.fields, EndsAt(k + 1)) \/ wrapped
    BY <1>1, <2>1, <2>3, OneMore DEF offset
  <2>5. g[1..(k + 1)] = new
    BY <2>2 DEF acc
  <2> HIDE DEF new
  <2> QED BY <2>4, <2>5
<1>6. Good(n)
  <2> HIDE DEF Good
  <2>1. 0 \in G /\ \A k \in 0..(n - 1) : k \in G => k + 1 \in G
    BY <1>1, <1>4, <1>5
  <2> HIDE DEF G
  <2>2. \A k \in 0..n : k \in G
    BY <1>1, <2>1, UpTo
  <2> QED BY <1>1, <2>2 DEF G
<1> QED BY <1>3, <1>6 DEF Accumulated, n

\* Where element i of an array starts and ends.
LEMMA Multiples ==
  ASSUME NEW n \in Nat, NEW i \in 1..n, NEW c \in Nat
  PROVE  /\ (i - 1) * c \in Nat /\ i * c \in Nat /\ i * c = (i - 1) * c + c
         /\ i * c <= n * c
<1>1. PICK a \in Nat : i = a + 1 /\ i - 1 = a
  <2>1. i - 1 \in Nat /\ i = (i - 1) + 1
    OBVIOUS
  <2> QED BY <2>1
<1>2. i \in Nat /\ i <= n
  OBVIOUS
<1>3. a * c \in Nat /\ (a + 1) * c = a * c + c
  BY Product
<1>4. i * c \in Nat /\ i * c <= n * c
  BY <1>2, Product
<1> QED BY <1>1, <1>3, <1>4

LEMMA SeqLemma ==
  ASSUME NEW n \in Nat, NEW S, NEW f, f = [i \in 1..n |-> f[i]], \A i \in 1..n : f[i] \in S
  PROVE  f \in Seq(S) /\ Len(f) = n
OBVIOUS

\* A sequence continued by another of n elements.
LEMMA Joined ==
  ASSUME NEW S, NEW s \in Seq(S), NEW t \in Seq(S), NEW n, Len(t) = n, NEW u, u = s \o t
  PROVE  /\ u \in Seq(S) /\ Len(s) \in Nat /\ DOMAIN s = 1..Len(s)
         /\ DOMAIN u = 1..(Len(s) + n)
         /\ \A i \in 1..Len(s) : u[i] = s[i] /\ s[i] \in S
         /\ \A i \in 1..n : u[Len(s) + i] = t[i]
OBVIOUS

\* What the array fields of an item leave.  over: the product wraps.
LEMMA ArraysAdded ==
  ASSUME ParserOK, NEW over \in BOOLEAN, wrapped => over,
         Layout(fields, offsets) \/ wrapped, Declared(fields, description),
         global.report_count * global.report_size < Word \/ over,
         AddArrayFields(offsets[global.report_id])
  PROVE  /\ fields' \in Seq(Fields) /\ description' \in Described
         /\ Declared(fields', description')
         /\ Layout(fields', EndsAt(global.report_count)) \/ over
<1> DEFINE offset == offsets[global.report_id]
           n == global.report_count
           size == global.report_size
           first == local.min[1].usage
           last == local.max[1].usage
           at(i) == offset + (((i - 1) * size) % Word)
           arrays == [i \in 1..n |-> Field("array", 0, at(i), first, last)]
           none == \/ ~Readable
                   \/ local.min = <<>> \/ local.max = <<>>
                   \/ local.min[1].page # ButtonPage \/ local.max[1].page # ButtonPage
<1>1. /\ global \in Globals /\ local \in Locals /\ offsets \in [ReportIds -> Nat]
      /\ fields \in Seq(Fields) /\ description \in Described /\ n \in Nat /\ size \in Nat
      /\ offset \in Nat /\ Word \in Nat /\ Word > 0 /\ global.report_id \in ReportIds
  BY Limits DEF ParserOK, Globals
<1>2. /\ EndsAt(n) \in [ReportIds -> Nat] /\ EndsAt(n)[global.report_id] = offset + n * size
      /\ n * size \in Nat
  <2>1. n * size \in Nat
    BY <1>1, Product
  <2> QED BY <1>1, <2>1, EndsLemma
<1>3. \A id \in ReportIds : offsets[id] <= EndsAt(n)[id]
  <2> SUFFICES ASSUME NEW id \in ReportIds PROVE offsets[id] <= EndsAt(n)[id]
    OBVIOUS
  <2>1. CASE id = global.report_id
    BY <1>1, <1>2, <2>1
  <2>2. CASE id # global.report_id
    BY <1>1, <2>2 DEF EndsAt
  <2> QED BY <2>1, <2>2
<1>4. Layout(fields, EndsAt(n)) \/ over
  BY <1>1, <1>2, <1>3, LayoutGrows
<1>5. CASE none
  BY <1>1, <1>4, <1>5 DEF AddArrayFields
<1>6. CASE ~none
  <2>1. /\ first \in Nat /\ last \in Nat
    <3>1. local.min[1] \in Usages /\ local.max[1] \in Usages
      BY <1>1, <1>6 DEF Locals
    <3> QED BY <3>1 DEF Usages
  <2>2. /\ fields' = fields \o arrays
        /\ description' = [description EXCEPT !.buttons = ArrayCounted]
    BY <1>6 DEF AddArrayFields
  <2>3. \A i \in 1..n : (i - 1) * size \in Nat /\ at(i) \in Nat
    <3> SUFFICES ASSUME NEW i \in 1..n PROVE (i - 1) * size \in Nat /\ at(i) \in Nat
      OBVIOUS
    <3>1. (i - 1) * size \in Nat
      BY <1>1, Product
    <3> DEFINE k == (i - 1) * size
    <3> HIDE DEF k
    <3>2. k % Word \in Nat
      BY <1>1, <3>1 DEF k
    <3> QED BY <1>1, <3>1, <3>2 DEF k
  <2> HIDE DEF at
  <2>4. ASSUME NEW i \in 1..n
        PROVE  /\ arrays[i] \in Fields /\ arrays[i].kind = "array" /\ arrays[i].last = last
               /\ arrays[i].id = global.report_id /\ arrays[i].offset = at(i)
               /\ arrays[i].size = size
    BY <1>1, <2>1, <2>3 DEF Field, Fields, Globals
  <2>5. arrays \in Seq(Fields) /\ Len(arrays) = n
    <3>1. arrays = [i \in 1..n |-> arrays[i]]
      OBVIOUS
    <3> HIDE DEF arrays
    <3> QED BY <1>1, <2>4, <3>1, SeqLemma
  <2> HIDE DEF arrays
  <2> DEFINE gs == fields \o arrays
             m == Len(fields)
  <2>6. /\ gs \in Seq(Fields) /\ m \in Nat /\ DOMAIN fields = 1..m /\ DOMAIN gs = 1..(m + n)
        /\ \A i \in 1..m : gs[i] = fields[i] /\ fields[i] \in Fields
        /\ \A i \in 1..n : gs[m + i] = arrays[i]
    <3>1. fields \in Seq(Fields) /\ gs = fields \o arrays
      BY <1>1
    <3> HIDE DEF gs, n
    <3> QED BY <2>5, <3>1, Joined DEF m
  <2>7. \A i \in 1..(m + n) : i \in 1..m \/ (i - m \in 1..n /\ gs[i] = arrays[i - m])
    <3> SUFFICES ASSUME NEW i \in 1..(m + n), i \notin 1..m
                 PROVE  i - m \in 1..n /\ gs[i] = arrays[i - m]
      OBVIOUS
    <3>1. i - m \in 1..n /\ m + (i - m) = i
      BY <1>1, <2>6
    <3> HIDE DEF gs
    <3> QED BY <2>6, <3>1
  <2> HIDE DEF gs, m
  <2> DEFINE d == description
             e == [d EXCEPT !.buttons = ArrayCounted]
  <2>8. /\ ArrayCounted \in Nat /\ d.buttons <= ArrayCounted
        /\ last <= ArrayCounted \/ MaxButtons <= ArrayCounted
    <3> DEFINE low == Min({last, MaxButtons})
    <3>1. low \in Nat /\ (last <= low \/ MaxButtons <= low)
      BY <2>1, Limits, MaxOfTwo
    <3>2. d.buttons \in Nat
      BY <1>1 DEF Described
    <3>3. ArrayCounted = Max({d.buttons, low})
      BY DEF ArrayCounted
    <3> HIDE DEF low
    <3>4. /\ Max({d.buttons, low}) \in Nat /\ Max({d.buttons, low}) >= d.buttons
          /\ Max({d.buttons, low}) >= low
      BY <3>1, <3>2, MaxOfTwo
    <3> QED BY <2>1, <3>1, <3>2, <3>3, <3>4, Limits
  <2>9. /\ e \in Described /\ e.buttons = ArrayCounted /\ e.hats = d.hats
        /\ e.axes = d.axes /\ e.motion = d.motion
    BY <1>1, <2>8 DEF Described
  <2>10. Grown(d, e)
    BY <1>1, <2>8, <2>9 DEF Grown, Described
  <2> HIDE DEF e
  <2>11. Declared(gs, e)
    <3>1. \A i \in 1..m : Counted(gs[i], e)
      BY <1>1, <2>6, <2>9, <2>10, CountedGrows DEF Declared
    <3>2. \A i \in 1..n : Counted(arrays[i], e)
      BY <2>4, <2>8, <2>9 DEF Counted
    <3> QED BY <2>6, <2>7, <3>1, <3>2 DEF Declared
  <2>12. ASSUME ~over
         PROVE  Layout(gs, EndsAt(n))
    <3>1. ASSUME NEW i \in 1..n
          PROVE  at(i) = offset + (i - 1) * size
      <4>1. (i - 1) * size \in Nat /\ i * size \in Nat /\ i * size = (i - 1) * size + size
            /\ i * size <= n * size
        BY <1>1, Multiples
      <4> DEFINE k == (i - 1) * size
                 total == n * size
      <4>2. k \in Nat /\ k <= total /\ total < Word /\ total \in Nat
        <5>1. total < Word
          BY <2>12
        <5> QED BY <1>1, <4>1, <5>1
      <4> HIDE DEF k, total
      <4>3. k % Word = k
        BY <1>1, <4>2
      <4> QED BY <4>3 DEF at, k
    <3>2. ASSUME NEW i \in 1..n
          PROVE  /\ arrays[i].offset + arrays[i].size = offset + i * size
                 /\ i * size \in Nat /\ i * size <= n * size
      <4>1. (i - 1) * size \in Nat /\ i * size \in Nat /\ i * size = (i - 1) * size + size
            /\ i * size <= n * size
        BY <1>1, Multiples
      <4>2. arrays[i].offset = offset + (i - 1) * size /\ arrays[i].size = size
        BY <2>4, <3>1
      <4> DEFINE k == (i - 1) * size
                 l == i * size
      <4> HIDE DEF k, l
      <4> QED BY <1>1, <4>1, <4>2 DEF k, l
    <3>3. Layout(fields, offsets) /\ Layout(fields, EndsAt(n))
      BY <1>4, <2>12
    <3>4. ASSUME NEW i \in 1..(m + n)
          PROVE  gs[i].offset + gs[i].size <= EndsAt(n)[gs[i].id]
      <4>1. CASE i \in 1..m
        BY <2>6, <3>3, <4>1 DEF Layout
      <4>2. CASE i - m \in 1..n /\ gs[i] = arrays[i - m]
        <5>1. gs[i].id = global.report_id
          BY <2>4, <4>2
        <5>2. gs[i].offset + gs[i].size = offset + (i - m) * size
              /\ (i - m) * size \in Nat /\ (i - m) * size <= n * size
          BY <3>2, <4>2
        <5> DEFINE l == (i - m) * size
                   total == n * size
        <5> HIDE DEF l, total
        <5> QED BY <1>1, <1>2, <5>1, <5>2 DEF l, total
      <4> QED BY <2>7, <4>1, <4>2
    <3>5. ASSUME NEW i \in 1..(m + n), NEW j \in 1..(m + n), i < j, gs[i].id = gs[j].id
          PROVE  gs[i].offset + gs[i].size <= gs[j].offset
      <4>1. CASE j \in 1..m
        <5>1. i \in 1..m
          BY <2>6, <3>5, <4>1
        <5> QED BY <2>6, <3>3, <3>5, <4>1, <5>1 DEF Layout
      <4>2. CASE j - m \in 1..n /\ gs[j] = arrays[j - m] /\ i \in 1..m
        <5>1. gs[j].id = global.report_id /\ gs[j].offset = offset + (j - m - 1) * size
          BY <2>4, <3>1, <4>2
        <5>2. gs[i].offset + gs[i].size <= offset
          BY <2>6, <3>3, <3>5, <4>2, <5>1 DEF Layout
        <5>3. (j - m - 1) * size \in Nat
          <6>1. j - m - 1 \in Nat
            BY <4>2
          <6> QED BY <1>1, <6>1, Product
        <5>4. gs[i].offset \in Nat /\ gs[i].size \in Nat
          BY <2>6, <4>2, FieldTypes
        <5> DEFINE l == (j - m - 1) * size
        <5> HIDE DEF l
        <5> QED BY <1>1, <5>1, <5>2, <5>3, <5>4 DEF l
      <4>3. CASE /\ j - m \in 1..n /\ gs[j] = arrays[j - m]
                 /\ i - m \in 1..n /\ gs[i] = arrays[i - m]
        <5>1. gs[j].offset = offset + (j - m - 1) * size
          BY <2>4, <3>1, <4>3
        <5>2. gs[i].offset + gs[i].size = offset + (i - m) * size
          BY <3>2, <4>3
        <5>3. /\ (j - m - 1) * size \in Nat /\ (i - m) * size \in Nat
              /\ (i - m) * size <= (j - m - 1) * size
          <6>1. i - m \in Nat /\ j - m - 1 \in Nat /\ i - m <= j - m - 1
            BY <2>6, <3>5, <4>3
          <6> QED BY <1>1, <6>1, Product
        <5> DEFINE l == (j - m - 1) * size
                   k == (i - m) * size
        <5> HIDE DEF l, k
        <5> QED BY <1>1, <5>1, <5>2, <5>3 DEF l, k
      <4> QED BY <2>7, <4>1, <4>2, <4>3
    <3> QED BY <2>6, <3>4, <3>5 DEF Layout
  <2> QED BY <2>2, <2>6, <2>9, <2>11, <2>12 DEF gs, e, n
<1> QED BY <1>5, <1>6

\* The bits of an item, passed over in every report but its own.
LEMMA Passed ==
  ASSUME global \in Globals, offsets \in [ReportIds -> Nat], NEW c \in Nat,
         NEW ends, ends = [offsets EXCEPT ![global.report_id] = @ + c]
  PROVE  /\ ends \in [ReportIds -> Nat]
         /\ \A id \in ReportIds : offsets[id] <= ends[id]
<1>1. /\ global.report_id \in ReportIds
      /\ \A id \in ReportIds : offsets[id] \in Nat
  BY DEF Globals
<1>2. offsets[global.report_id] + c \in Nat
  BY <1>1
<1>3. ends \in [ReportIds -> Nat]
  BY <1>1, <1>2
<1>4. \A id \in ReportIds : offsets[id] <= ends[id]
  BY <1>1, <1>2
<1> QED BY <1>3, <1>4

LEMMA Modulo ==
  ASSUME NEW a \in Nat, NEW w \in Nat, w > 0
  PROVE  a % w \in Nat /\ (a < w => a % w = a)
OBVIOUS

\* The part of the parser's state that its items change.
LaidOut ==
  /\ Layout(fields, offsets) \/ wrapped
  /\ Declared(fields, description)

\* An Input item keeps the layout, whatever its flags.
LEMMA InputAdds ==
  ASSUME ParserOK, LaidOut, NEW flags \in InputFlags, AddInputFields(flags)
  PROVE  /\ fields' \in Seq(Fields) /\ description' \in Described
         /\ offsets' \in [ReportIds -> Nat] /\ wrapped' \in BOOLEAN
         /\ LaidOut'
<1> DEFINE n == global.report_count
           size == global.report_size
           bits == size * n
           offset == offsets[global.report_id]
<1>1. /\ global \in Globals /\ offsets \in [ReportIds -> Nat] /\ fields \in Seq(Fields)
      /\ description \in Described /\ wrapped \in BOOLEAN
      /\ n \in Nat /\ size \in Nat /\ Word \in Nat /\ Word > 0
      /\ Layout(fields, offsets) \/ wrapped
      /\ Declared(fields, description)
  BY Limits DEF ParserOK, Globals, LaidOut
<1>2. bits \in Nat /\ bits = n * size
  BY <1>1, Product
<1>3. CASE bits = 0
  <2>1. UNCHANGED <<fields, description, offsets, wrapped>>
    BY <1>3 DEF AddInputFields
  <2> QED BY <1>1, <2>1 DEF LaidOut
<1>4. CASE bits # 0
  <2> DEFINE by == Advance(flags)
  <2>1. /\ wrapped' = (wrapped \/ (flags # "variable" /\ bits >= Word))
        /\ offsets' = [offsets EXCEPT ![global.report_id] = @ + by]
        /\ flags = "constant" => UNCHANGED <<fields, description>>
        /\ flags = "array" => AddArrayFields(offset)
        /\ flags = "variable" => AddVariableFields(offset)
    <3>1. flags \in {"constant", "array", "variable"}
      BY DEF InputFlags
    <3> QED BY <1>4, <3>1 DEF AddInputFields
  <2>2. /\ flags = "variable" => by = bits
        /\ flags # "variable" => by = bits % Word
    BY DEF Advance
  <2> HIDE DEF bits, by
  <2>3. bits % Word \in Nat /\ (bits < Word => bits % Word = bits)
    BY <1>1, <1>2, Modulo
  <2> DEFINE wraps == flags # "variable" /\ bits >= Word
  <2>4. wraps \in BOOLEAN /\ (wraps <=> flags # "variable" /\ ~(bits < Word))
    BY <1>1, <1>2
  <2>5. wrapped' = (wrapped \/ wraps)
    BY <2>1
  <2> HIDE DEF wraps
  <2>6. wrapped' \in BOOLEAN /\ (wrapped' <=> wrapped \/ wraps)
    BY <2>5, Zenon
  <2>7. by \in Nat /\ wrapped' \in BOOLEAN /\ (~wrapped' => by = bits /\ ~wrapped)
    BY <1>1, <1>2, <2>2, <2>3, <2>4, <2>6
  <2>8. offsets' \in [ReportIds -> Nat] /\ \A id \in ReportIds : offsets[id] <= offsets'[id]
    BY <1>1, <2>1, <2>7, Passed
  <2>9. by = bits => offsets' = EndsAt(n)
    BY <1>2, <2>1 DEF EndsAt, n, size, bits
  <2>10. CASE flags = "constant"
    <3>1. Layout(fields, offsets') \/ wrapped'
      BY <1>1, <2>7, <2>8, LayoutGrows
    <3> QED BY <1>1, <2>1, <2>7, <2>8, <2>10, <3>1 DEF LaidOut
  <2>11. CASE flags = "array"
    <3>1. bits < Word \/ wrapped'
      BY <2>11, <2>4, <2>6
    <3>2. wrapped => wrapped'
      BY <2>6
    <3>3. /\ fields' \in Seq(Fields) /\ description' \in Described
          /\ Declared(fields', description')
          /\ Layout(fields', EndsAt(n)) \/ wrapped'
      BY <1>1, <1>2, <2>1, <2>7, <2>11, <3>1, <3>2, ArraysAdded
    <3> QED BY <2>7, <2>8, <2>9, <3>3 DEF LaidOut
  <2>12. CASE flags = "variable"
    <3>1. /\ fields' \in Seq(Fields) /\ description' \in Described
          /\ Declared(fields', description')
          /\ Layout(fields', EndsAt(n)) \/ wrapped
      BY <1>1, <2>1, <2>12, VariablesAdded
    <3>2. by = bits /\ (wrapped' <=> wrapped)
      BY <2>2, <2>12, <2>4, <2>6
    <3> QED BY <2>7, <2>8, <2>9, <3>1, <3>2 DEF LaidOut
  <2>13. flags \in {"constant", "array", "variable"}
    BY DEF InputFlags
  <2> QED BY <2>10, <2>11, <2>12, <2>13
<1> QED BY <1>3, <1>4

-----------------------------------------------------------------------------
(* The parser's invariant *)

Parsed == ParserOK /\ LaidOut

\* Every item read is known.
LEMMA KeepRest ==
  ASSUME ParserOK, rest # <<>>, Keep
  PROVE  /\ Head(rest) \in KnownItems /\ rest' \in Seq(KnownItems)
         /\ phase' \in {"parsing", "refused", "ready"}
BY DEF ParserOK, Keep

LEMMA Refused ==
  ASSUME Parsed, Refuse
  PROVE  Parsed'
BY DEF Parsed, ParserOK, LaidOut, Refuse

\* Each kind of item keeps the invariant.
LEMMA MainStep ==
  ASSUME Parsed, rest # <<>>, ParseMain(Head(rest))
  PROVE  Parsed'
<1> DEFINE item == Head(rest)
<1>1. item \in KnownItems /\ rest' \in Seq(KnownItems) /\ phase' \in {"parsing", "refused", "ready"}
  BY KeepRest DEF ParseMain, Parsed
<1>2. /\ item.tag = "input" => AddInputFields(item.value)
      /\ item.tag # "input" => UNCHANGED <<fields, description, offsets, wrapped>>
      /\ local' = NoLocal /\ UNCHANGED <<global, stack>>
  BY DEF ParseMain
<1> HIDE DEF item
<1>3. NoLocal \in Locals
  BY DEF NoLocal, Locals
<1>4. CASE item.tag = "input"
  <2>1. item.value \in InputFlags
    BY <1>1, <1>4, ItemTypes
  <2>2. /\ fields' \in Seq(Fields) /\ description' \in Described
        /\ offsets' \in [ReportIds -> Nat] /\ wrapped' \in BOOLEAN
        /\ LaidOut'
    BY <1>2, <1>4, <2>1, InputAdds DEF Parsed
  <2> QED BY <1>1, <1>2, <1>3, <2>2 DEF Parsed, ParserOK
<1>5. CASE item.tag # "input"
  BY <1>1, <1>2, <1>3, <1>5 DEF Parsed, ParserOK, LaidOut
<1> QED BY <1>4, <1>5

LEMMA GlobalStep ==
  ASSUME Parsed, rest # <<>>, ParseGlobal(Head(rest))
  PROVE  Parsed'
<1> DEFINE item == Head(rest)
           unfit == item.tag = "report_id" /\ item.value \notin 1..255
<1>1. CASE unfit
  BY <1>1, Refused DEF ParseGlobal
<1>2. CASE ~unfit
  <2>1. /\ item.tag \in GlobalTags /\ Keep
        /\ global' = [global EXCEPT ![item.tag] = item.value]
        /\ UNCHANGED <<local, stack, offsets, fields, description, wrapped>>
    BY <1>2 DEF ParseGlobal
  <2>2. item \in KnownItems /\ rest' \in Seq(KnownItems)
        /\ phase' \in {"parsing", "refused", "ready"}
    BY <2>1, KeepRest DEF Parsed
  <2> HIDE DEF item
  <2>3. global' \in Globals
    BY <1>2, <2>1, <2>2, GlobalTypes DEF Parsed, ParserOK
  <2> QED BY <2>1, <2>2, <2>3 DEF Parsed, ParserOK, LaidOut
<1> QED BY <1>1, <1>2

LEMMA LocalStep ==
  ASSUME Parsed, rest # <<>>, ParseLocal(Head(rest))
  PROVE  Parsed'
<1> DEFINE item == Head(rest)
<1>1. /\ item.tag \in {"usage", "usage_min", "usage_max"} /\ Keep
      /\ UNCHANGED <<global, stack, offsets, fields, description, wrapped>>
      /\ item.tag = "usage" =>
           local' = [local EXCEPT !.usages = Append(@, UsageFromItem(item))]
      /\ item.tag = "usage_min" => local' = [local EXCEPT !.min = <<UsageFromItem(item)>>]
      /\ item.tag = "usage_max" => local' = [local EXCEPT !.max = <<UsageFromItem(item)>>]
  BY DEF ParseLocal
<1>2. item \in KnownItems /\ rest' \in Seq(KnownItems)
      /\ phase' \in {"parsing", "refused", "ready"}
  BY <1>1, KeepRest DEF Parsed
<1> HIDE DEF item
<1>3. local' \in Locals
  <2>1. global \in Globals /\ local \in Locals
    BY DEF Parsed, ParserOK
  <2>2. CASE item.tag = "usage"
    BY <1>1, <1>2, <2>1, <2>2, LocalTypes
  <2>3. CASE item.tag = "usage_min"
    BY <1>1, <1>2, <2>1, <2>3, LocalTypes
  <2>4. CASE item.tag = "usage_max"
    <3>1. [local EXCEPT !.max = <<UsageFromItem(item)>>] \in Locals
      BY <1>2, <2>1, <2>4, LocalTypes
    <3> QED BY <1>1, <2>4, <3>1
  <2> QED BY <1>1, <2>2, <2>3, <2>4
<1> QED BY <1>1, <1>2, <1>3 DEF Parsed, ParserOK, LaidOut

LEMMA StackStep ==
  ASSUME Parsed, rest # <<>>, ParsePush(Head(rest)) \/ ParsePop(Head(rest))
  PROVE  Parsed'
<1>1. CASE ParsePush(Head(rest))
  <2>1. /\ Keep /\ stack' = Append(stack, global)
        /\ UNCHANGED <<global, local, offsets, fields, description, wrapped>>
    BY <1>1 DEF ParsePush
  <2>2. rest' \in Seq(KnownItems) /\ phase' \in {"parsing", "refused", "ready"}
    BY <2>1, KeepRest DEF Parsed
  <2>3. stack' \in Seq(Globals)
    BY <2>1 DEF Parsed, ParserOK
  <2> QED BY <2>1, <2>2, <2>3 DEF Parsed, ParserOK, LaidOut
<1>2. CASE ParsePop(Head(rest)) /\ stack = <<>>
  BY <1>2, Refused DEF ParsePop
<1>3. CASE ParsePop(Head(rest)) /\ stack # <<>>
  <2>1. /\ Keep /\ global' = Last(stack) /\ stack' = Front(stack)
        /\ UNCHANGED <<local, offsets, fields, description, wrapped>>
    BY <1>3 DEF ParsePop
  <2>2. rest' \in Seq(KnownItems) /\ phase' \in {"parsing", "refused", "ready"}
    BY <2>1, KeepRest DEF Parsed
  <2>3. stack \in Seq(Globals) /\ Len(stack) \in Nat /\ Len(stack) > 0
    BY <1>3 DEF Parsed, ParserOK
  <2>4. Last(stack) \in Globals /\ Front(stack) \in Seq(Globals)
    BY <2>3 DEF Last, Front
  <2> QED BY <2>1, <2>2, <2>4 DEF Parsed, ParserOK, LaidOut
<1> QED BY <1>1, <1>2, <1>3

LEMMA OtherStep ==
  ASSUME Parsed, rest # <<>>, ParseOther(Head(rest))
  PROVE  Parsed'
<1>1. CASE Refuse
  BY <1>1, Refused
<1>2. CASE /\ Keep
           /\ UNCHANGED <<global, local, stack, offsets, fields, description, wrapped>>
  <2>1. rest' \in Seq(KnownItems) /\ phase' \in {"parsing", "refused", "ready"}
    BY <1>2, KeepRest DEF Parsed
  <2> QED BY <1>2, <2>1 DEF Parsed, ParserOK, LaidOut
<1> QED BY <1>1, <1>2 DEF ParseOther

\* It holds when the parser starts, and after every step.
LEMMA ParsedInit ==
  ASSUME Init
  PROVE  Parsed
<1>1. PICK items \in Descriptors : InitWith(items)
  BY DEF Init
<1>2. rest \in Seq(KnownItems)
  BY <1>1, DescriptorItems DEF InitWith
<1>3. global \in Globals
  BY <1>1, Limits DEF InitWith, Globals
<1>4. local \in Locals /\ stack \in Seq(Globals) /\ fields \in Seq(Fields)
  BY <1>1 DEF InitWith, NoLocal, Locals
<1>5. description \in Described
  BY <1>1 DEF InitWith, Described
<1>6. offsets \in [ReportIds -> Nat]
  BY <1>1 DEF InitWith
<1>7. fields = <<>> /\ DOMAIN fields = {}
  BY <1>1 DEF InitWith
<1>8. LaidOut
  BY <1>7 DEF LaidOut, Layout, Declared
<1> QED BY <1>1, <1>2, <1>3, <1>4, <1>5, <1>6, <1>8 DEF Parsed, ParserOK, InitWith

LEMMA ParsedStep ==
  ASSUME Parsed, [Next]_vars
  PROVE  Parsed'
<1>1. CASE Parse
  <2>1. rest # <<>> /\ (\/ ParseMain(Head(rest)) \/ ParseGlobal(Head(rest))
                        \/ ParseLocal(Head(rest)) \/ ParsePush(Head(rest))
                        \/ ParsePop(Head(rest)) \/ ParseOther(Head(rest)))
    BY <1>1 DEF Parse
  <2> QED BY <2>1, MainStep, GlobalStep, LocalStep, StackStep, OtherStep
<1>2. CASE Finish
  BY <1>2 DEF Finish, parser, Parsed, ParserOK, LaidOut
<1>3. ASSUME NEW id \in ReportIds, NEW bits \in Reports, Receive(id, bits)
      PROVE  Parsed'
  BY <1>3 DEF Receive, parser, Parsed, ParserOK, LaidOut
<1>4. CASE UNCHANGED vars
  BY <1>4 DEF vars, parser, Parsed, ParserOK, LaidOut
<1> QED BY <1>1, <1>2, <1>3, <1>4 DEF Next, Done

\* Fields of one report share no bit (FieldsAreDisjoint), whatever items come
\* in whatever order: DescriptorBuilder keeps one offset for every report id
\* and each Input item moves it past what it added.
THEOREM FieldsDoNotOverlap == Spec => []FieldsAreDisjoint
<1>1. Parsed => FieldsAreDisjoint
  <2> SUFFICES ASSUME Parsed, ~wrapped, NEW i \in DOMAIN fields, NEW j \in DOMAIN fields,
                      i < j, fields[i].id = fields[j].id
               PROVE  fields[i].offset + fields[i].size <= fields[j].offset
    BY DEF FieldsAreDisjoint
  <2> QED BY DEF Parsed, LaidOut, Layout
<1>2. Init => Parsed
  BY ParsedInit
<1>3. Parsed /\ [Next]_vars => Parsed'
  BY ParsedStep
<1> QED BY <1>1, <1>2, <1>3, PTL DEF Spec

-----------------------------------------------------------------------------
(* What a report shows: the fold of VariablesRead *)

ReadStep(shown, f, id, bits) ==
  IF f.id # id \/ f.kind = "array" THEN shown
  ELSE [shown EXCEPT ![ControlOf(f)] = FieldShows(f, bits)]

IsReadFold(g, id, bits) ==
  g = [s \in SUBSET DOMAIN fields |->
         IF s = {} THEN state
         ELSE ReadStep(g[s \ {Max(s)}], fields[Max(s)], id, bits)]

ReadFold(id, bits) == CHOOSE g : IsReadFold(g, id, bits)

\* VariablesRead is the fold's last value.
LEMMA VariablesReadFold ==
  ASSUME NEW id, NEW bits
  PROVE  VariablesRead(id, bits) = ReadFold(id, bits)[DOMAIN fields]
BY Zenon DEF VariablesRead, FoldLeft, MapThenFoldSet, ReadFold, IsReadFold, ReadStep

\* The first k fields of the report that show a control by themselves.
Direct(id, c, k) ==
  {i \in 1..k :
     fields[i].id = id /\ fields[i].kind # "array" /\ ControlOf(fields[i]) = c}

\* What they show of it.
Shown(id, bits, c, k) ==
  IF Direct(id, c, k) = {} THEN state[c]
  ELSE FieldShows(fields[Max(Direct(id, c, k))], bits)

StateOK == state \in [Controls -> {state[c] : c \in Controls}]

\* The fold goes field by field.
LEMMA ReadFoldSteps ==
  ASSUME fields \in Seq(Fields), StateOK, NEW id, NEW bits
  PROVE  LET g == ReadFold(id, bits)
         IN  /\ g[1..0] = state
             /\ \A k \in 1..Len(fields) : g[1..k] = ReadStep(g[1..(k - 1)], fields[k], id, bits)
<1> DEFINE n == Len(fields)
           X == {state[c] : c \in Controls} \cup {FieldShows(fields[i], bits) : i \in 1..n}
           V == [Controls -> X]
           F == [p \in V \X (1..n) |-> ReadStep(p[1], fields[p[2]], id, bits)]
<1>1. n \in Nat /\ DOMAIN fields = 1..n /\ state \in V
  BY DEF StateOK
<1>2. F \in [V \X (1..n) -> V]
  <2>1. ASSUME NEW v \in V, NEW i \in 1..n
        PROVE  ReadStep(v, fields[i], id, bits) \in V
    <3>1. FieldShows(fields[i], bits) \in X
      OBVIOUS
    <3> HIDE DEF X
    <3> QED BY <3>1 DEF ReadStep
  <2> HIDE DEF V
  <2> QED BY <2>1
<1>3. \A v \in V, k \in 1..n : F[<<v, k>>] = ReadStep(v, fields[k], id, bits)
  <2> HIDE DEF V
  <2> QED OBVIOUS
<1> HIDE DEF n, X, V, F
<1>4. PICK g \in [SUBSET (1..n) -> V] : IsFold(g, n, F, state)
  BY <1>1, <1>2, FoldExists
<1>5. IsReadFold(g, id, bits)
  <2> DEFINE e(s) == IF s = {} THEN state ELSE F[<<g[s \ {Max(s)}], Max(s)>>]
             d(s) == IF s = {} THEN state
                     ELSE ReadStep(g[s \ {Max(s)}], fields[Max(s)], id, bits)
  <2>1. ASSUME NEW s \in SUBSET (1..n)
        PROVE  e(s) = d(s)
    <3>1. CASE s # {}
      <4>1. Max(s) \in 1..n
        BY <1>1, <3>1, Greatest
      <4>2. g[s \ {Max(s)}] \in V
        OBVIOUS
      <4> QED BY <1>3, <3>1, <4>1, <4>2
    <3> QED BY <3>1
  <2>2. g = [s \in SUBSET (1..n) |-> e(s)]
    BY <1>4, Zenon DEF IsFold
  <2> HIDE DEF e, d
  <2>3. g = [s \in SUBSET (1..n) |-> d(s)]
    BY <2>1, <2>2
  <2>4. g = [s \in SUBSET DOMAIN fields |-> d(s)]
    BY <1>1, <2>3
  <2> QED BY <2>4, Zenon DEF IsReadFold, d
<1> DEFINE h == ReadFold(id, bits)
<1>6. IsReadFold(h, id, bits)
  BY <1>5, Zenon DEF ReadFold
<1> HIDE DEF h
<1>7. ASSUME NEW s \in SUBSET (1..n)
      PROVE  h[s] = IF s = {} THEN state
                    ELSE ReadStep(h[s \ {Max(s)}], fields[Max(s)], id, bits)
  <2> DEFINE d(t) == IF t = {} THEN state
                     ELSE ReadStep(h[t \ {Max(t)}], fields[Max(t)], id, bits)
  <2>1. h = [t \in SUBSET DOMAIN fields |-> d(t)]
    BY <1>6, Zenon DEF IsReadFold
  <2> HIDE DEF d
  <2>2. h[s] = d(s)
    BY <1>1, <2>1
  <2> QED BY <2>2, Zenon DEF d
<1>8. h[1..0] = state
  <2>1. 1..0 = {} /\ 1..0 \in SUBSET (1..n)
    OBVIOUS
  <2> QED BY <1>7, <2>1
<1>9. ASSUME NEW k \in 1..n
      PROVE  h[1..k] = ReadStep(h[1..(k - 1)], fields[k], id, bits)
  <2>1. /\ 1..k \in SUBSET (1..n) /\ 1..k # {} /\ (1..k) \ {k} = 1..(k - 1)
        /\ Max(1..k) = k
    BY <1>1, PrefixLemma
  <2> QED BY <1>7, <2>1
<1> QED BY <1>8, <1>9 DEF h, n

\* One more field shows its own control and no other.
LEMMA DirectStep ==
  ASSUME NEW id, NEW c, NEW k \in Nat
  PROVE  LET own == fields[k + 1].id = id /\ fields[k + 1].kind # "array"
                    /\ ControlOf(fields[k + 1]) = c
         IN  /\ own => Direct(id, c, k + 1) # {} /\ Max(Direct(id, c, k + 1)) = k + 1
             /\ ~own => Direct(id, c, k + 1) = Direct(id, c, k)
<1> DEFINE own == fields[k + 1].id = id /\ fields[k + 1].kind # "array"
                  /\ ControlOf(fields[k + 1]) = c
           all == Direct(id, c, k + 1)
<1>1. all \subseteq 1..(k + 1) /\ (own => k + 1 \in all)
  BY DEF Direct
<1>2. ASSUME own
      PROVE  all # {} /\ Max(all) = k + 1
  <2> HIDE DEF all
  <2>1. all # {} /\ k + 1 \in Nat
    BY <1>1, <1>2
  <2>2. Max(all) \in all /\ \A i \in all : i <= Max(all)
    BY <1>1, <2>1, Greatest
  <2>3. k + 1 <= Max(all) /\ Max(all) \in 1..(k + 1)
    BY <1>1, <1>2, <2>2
  <2> QED BY <2>1, <2>3
<1>3. ASSUME ~own
      PROVE  all = Direct(id, c, k)
  <2>1. \A i \in 1..(k + 1) : i \in 1..k \/ i = k + 1
    OBVIOUS
  <2>2. \A i \in 1..k : i \in 1..(k + 1)
    OBVIOUS
  <2>3. \A i : i \in all <=> i \in Direct(id, c, k)
    BY <1>3, <2>1, <2>2 DEF Direct
  <2> QED BY <2>3
<1> QED BY <1>2, <1>3

\* After every field, each control shows its last one.
LEMMA VariablesShow ==
  ASSUME fields \in Seq(Fields), StateOK, NEW id, NEW bits
  PROVE  \A c \in Controls : VariablesRead(id, bits)[c] = Shown(id, bits, c, Len(fields))
<1> DEFINE n == Len(fields)
           g == ReadFold(id, bits)
           Good(k) == /\ DOMAIN g[1..k] = Controls /\ g[1..k] = [c \in Controls |-> g[1..k][c]]
                      /\ \A c \in Controls : g[1..k][c] = Shown(id, bits, c, k)
           G == {k \in 0..n : Good(k)}
<1>1. /\ g[1..0] = state
      /\ \A k \in 1..n : g[1..k] = ReadStep(g[1..(k - 1)], fields[k], id, bits)
  BY ReadFoldSteps
<1>2. n \in Nat /\ DOMAIN fields = 1..n /\ VariablesRead(id, bits) = g[1..n]
  <2>1. n \in Nat /\ DOMAIN fields = 1..n
    OBVIOUS
  <2> QED BY <2>1, VariablesReadFold
<1> HIDE DEF n, g
<1>3. Good(0)
  <2>1. \A c \in Controls : Direct(id, c, 0) = {}
    BY DEF Direct
  <2> QED BY <1>1, <2>1 DEF StateOK, Shown
<1>4. ASSUME NEW k \in 0..(n - 1), Good(k)
      PROVE  Good(k + 1)
  <2>1. k + 1 \in 1..n /\ (k + 1) - 1 = k /\ k \in Nat
    BY <1>2
  <2> DEFINE shown == g[1..k]
             f == fields[k + 1]
             new == ReadStep(shown, f, id, bits)
  <2>2. g[1..(k + 1)] = new
    BY <1>1, <2>1
  <2>3. /\ shown = [c \in Controls |-> shown[c]]
        /\ \A c \in Controls : shown[c] = Shown(id, bits, c, k)
    BY <1>4
  <2> HIDE DEF shown
  <2>4. new = [c \in Controls |-> new[c]]
    BY <2>3 DEF ReadStep
  <2>5. ASSUME NEW c \in Controls
        PROVE  new[c] = Shown(id, bits, c, k + 1)
    <3>1. CASE f.id = id /\ f.kind # "array" /\ ControlOf(f) = c
      <4>1. new[c] = FieldShows(f, bits)
        BY <2>3, <3>1 DEF ReadStep
      <4>2. Shown(id, bits, c, k + 1) = FieldShows(f, bits)
        BY <2>1, <3>1, DirectStep DEF Shown
      <4> QED BY <4>1, <4>2
    <3>2. CASE ~(f.id = id /\ f.kind # "array" /\ ControlOf(f) = c)
      <4>1. new[c] = shown[c]
        BY <2>3, <3>2 DEF ReadStep
      <4>2. Shown(id, bits, c, k + 1) = Shown(id, bits, c, k)
        BY <2>1, <3>2, DirectStep DEF Shown
      <4> QED BY <2>3, <4>1, <4>2
    <3> QED BY <3>1, <3>2
  <2> HIDE DEF new
  <2> QED BY <2>2, <2>4, <2>5
<1>5. Good(n)
  <2> HIDE DEF Good
  <2>1. 0 \in G /\ \A k \in 0..(n - 1) : k \in G => k + 1 \in G
    BY <1>2, <1>3, <1>4
  <2> HIDE DEF G
  <2>2. \A k \in 0..n : k \in G
    BY <1>2, <2>1, UpTo
  <2> QED BY <1>2, <2>2 DEF G
<1> QED BY <1>2, <1>5 DEF n

-----------------------------------------------------------------------------
(* What a report leaves in the state *)

\* Some array of a report covers a control, an element of one names it.
InArray(id, c) ==
  \E i \in FieldsOf(id) : fields[i].kind = "array" /\ Carries(fields[i], c)

NamedBy(id, bits, c) ==
  \E i \in FieldsOf(id) :
    /\ fields[i].kind = "array" /\ Carries(fields[i], c)
    /\ ReadBits(bits, fields[i].offset, fields[i].size) = c.index + 1

LEMMA ControlTypes ==
  ASSUME NEW c \in Controls
  PROVE  /\ c.kind \in {"button", "hat", "axis", "motion"}
         /\ c.index \in Nat
         /\ c.kind = "button" => c.index \in 0..(MaxButtons - 1)
<1>1. c \in ButtonControls => c.kind = "button" /\ c.index \in 0..(MaxButtons - 1)
  BY DEF ButtonControls
<1>2. c \in HatControls => c.kind = "hat" /\ c.index \in 0..(MaxHats - 1)
  BY DEF HatControls
<1>3. c \in AxisControls => c.kind = "axis" /\ c.index \in 0..(MaxAxes - 1)
  BY DEF AxisControls
<1>4. c \in MotionControls => c.kind = "motion" /\ c.index \in 0..2
  BY DEF MotionControls
<1> QED BY <1>1, <1>2, <1>3, <1>4, Limits DEF Controls

\* Decoded, control by control.
LEMMA DecodedShows ==
  ASSUME fields \in Seq(Fields), NEW id, NEW bits, NEW c \in Controls
  PROVE  Decoded(id, bits)[c] = IF NamedBy(id, bits, c) THEN 1
                                ELSE IF InArray(id, c) THEN 0
                                ELSE VariablesRead(id, bits)[c]
<1> DEFINE arrays == {i \in FieldsOf(id) : fields[i].kind = "array"}
           named == UNION {Named(fields[i], bits) : i \in arrays}
           covered == UNION {Covered(fields[i]) : i \in arrays}
<1>1. Decoded(id, bits)[c]
        = IF c.kind = "button" /\ c.index \in named THEN 1
          ELSE IF c.kind = "button" /\ c.index \in covered THEN 0
          ELSE VariablesRead(id, bits)[c]
  BY DEF Decoded
<1>2. c.kind = "button" => c.index \in 0..(MaxButtons - 1) /\ c.index \in Nat
  BY ControlTypes
<1>3. \A i \in FieldsOf(id) :
        c.kind = "button" =>
          (c.index \in Named(fields[i], bits) <=>
             c.index \in Covered(fields[i])
               /\ ReadBits(bits, fields[i].offset, fields[i].size) = c.index + 1)
  BY <1>2 DEF Named, Covered
<1>4. c.kind = "button" /\ c.index \in named <=> NamedBy(id, bits, c)
  BY <1>3 DEF NamedBy, Carries
<1>5. c.kind = "button" /\ c.index \in covered <=> InArray(id, c)
  BY DEF InArray, Carries
<1> HIDE DEF named, covered
<1> QED BY <1>1, <1>4, <1>5

\* The direct fields of a control, as ReportShows has them.
LEMMA DirectFields ==
  ASSUME fields \in Seq(Fields), NEW id, NEW c
  PROVE  /\ Direct(id, c, Len(fields))
              = {i \in FieldsOf(id) : fields[i].kind # "array" /\ Carries(fields[i], c)}
         /\ \A i \in FieldsOf(id) : i \in DOMAIN fields /\ fields[i] \in Fields
         /\ Direct(id, c, Len(fields)) # {} =>
              Max(Direct(id, c, Len(fields))) \in Direct(id, c, Len(fields))
<1>1. Len(fields) \in Nat /\ DOMAIN fields = 1..Len(fields)
  OBVIOUS
<1>2. \A i : i \in Direct(id, c, Len(fields))
             <=> i \in FieldsOf(id) /\ fields[i].kind # "array" /\ Carries(fields[i], c)
  BY <1>1 DEF Direct, FieldsOf, Carries
<1>3. Direct(id, c, Len(fields)) \subseteq 1..Len(fields)
  BY DEF Direct
<1>4. \A i \in FieldsOf(id) : i \in DOMAIN fields /\ fields[i] \in Fields
  BY DEF FieldsOf
<1>5. Direct(id, c, Len(fields)) # {} =>
        Max(Direct(id, c, Len(fields))) \in Direct(id, c, Len(fields))
  BY <1>1, <1>3, Greatest
<1> QED BY <1>2, <1>4, <1>5

\* ReportShows, in the same terms.
LEMMA ReportShowsIt ==
  ASSUME fields \in Seq(Fields), NEW id, NEW bits, NEW c \in Controls,
         InArray(id, c) \/ Direct(id, c, Len(fields)) # {}
  PROVE  ReportShows([id |-> id, bits |-> bits], c)
           = IF InArray(id, c) THEN IF NamedBy(id, bits, c) THEN 1 ELSE 0
             ELSE Shown(id, bits, c, Len(fields))
<1> DEFINE arrays == {i \in FieldsOf(id) : fields[i].kind = "array" /\ Carries(fields[i], c)}
           direct == {i \in FieldsOf(id) : fields[i].kind # "array" /\ Carries(fields[i], c)}
           read == \E i \in arrays :
                     ReadBits(bits, fields[i].offset, fields[i].size) = c.index + 1
<1>1. ReportShows([id |-> id, bits |-> bits], c)
        = IF arrays # {} THEN IF read THEN 1 ELSE 0 ELSE FieldShows(fields[Max(direct)], bits)
  BY DEF ReportShows
<1>2. arrays # {} <=> InArray(id, c)
  BY DEF InArray
<1>3. read <=> NamedBy(id, bits, c)
  BY DEF NamedBy
<1>4. Direct(id, c, Len(fields)) = direct
  BY DirectFields
<1> HIDE DEF arrays, direct, read
<1> QED BY <1>1, <1>2, <1>3, <1>4 DEF Shown

-----------------------------------------------------------------------------
(* The invariant of the decoder *)

\* A control the description counts.
Listed(c) ==
  CASE c.kind = "button" -> c.index < description.buttons
    [] c.kind = "hat" -> c.index < description.hats
    [] c.kind = "axis" -> c.index < Len(description.axes)
    [] c.kind = "motion" -> description.motion

AtRest == \A c \in Controls : state[c] = Rest(c) /\ carried[c] = NoReport

Known(c) ==
  /\ state[c] # Rest(c) => Listed(c)
  /\ state[c] = IF carried[c] = NoReport THEN Rest(c) ELSE ReportShows(carried[c], c)

DecoderOK ==
  /\ StateOK
  /\ phase # "ready" => AtRest
  /\ \A c \in Controls : Known(c)

\* A field counted by the description has a control that it counts.
LEMMA CountedListed ==
  ASSUME Parsed, NEW i \in DOMAIN fields, NEW c \in Controls, Carries(fields[i], c)
  PROVE  Listed(c)
<1> DEFINE f == fields[i]
           d == description
<1>1. f \in Fields /\ Counted(f, d)
  BY DEF Parsed, ParserOK, LaidOut, Declared
<1>2. f.last \in Nat /\ d.buttons \in Nat /\ MaxButtons \in Nat /\ f.first \in Nat
  BY <1>1, Limits, FieldTypes DEF Parsed, ParserOK, Described
<1>3. c.kind \in {"button", "hat", "axis", "motion"} /\ c.index \in Nat
  BY ControlTypes
<1> HIDE DEF f
<1>4. Carries(f, c)
  BY DEF f
<1>5. CASE f.kind = "array"
  <2>1. c.kind = "button" /\ c.index + 1 <= f.last /\ c.index < MaxButtons
    BY <1>2, <1>3, <1>4, <1>5 DEF Carries, Covered
  <2>2. f.last <= d.buttons \/ MaxButtons <= d.buttons
    BY <1>1, <1>5 DEF Counted
  <2>3. c.index < d.buttons
    BY <1>2, <1>3, <2>1, <2>2
  <2> QED BY <2>1, <2>3 DEF Listed
<1>6. CASE f.kind # "array"
  <2>1. c.kind = f.kind /\ c.index = f.index
    BY <1>4, <1>6 DEF Carries, ControlOf
  <2> QED BY <1>1, <1>3, <2>1 DEF Counted, Listed
<1> QED BY <1>5, <1>6

\* A report keeps it: the controls carried show the report, the others stay.
LEMMA ReceiveStep ==
  ASSUME Parsed, DecoderOK, NEW id \in ReportIds, NEW bits, Receive(id, bits)
  PROVE  DecoderOK'
<1> DEFINE report == [id |-> id, bits |-> bits]
           n == Len(fields)
           carries(c) == \E i \in FieldsOf(id) : Carries(fields[i], c)
<1>1. /\ phase = "ready" /\ state' = Decoded(id, bits)
      /\ carried' = [c \in Controls |-> IF carries(c) THEN report ELSE carried[c]]
      /\ UNCHANGED <<phase, fields, description>>
  BY DEF Receive, parser
<1>2. fields \in Seq(Fields) /\ StateOK
  BY DEF Parsed, ParserOK, DecoderOK
<1>3. StateOK'
  <2>1. state' = [c \in Controls |-> state'[c]]
    BY <1>1 DEF Decoded
  <2> HIDE DEF report
  <2>2. state' \in [Controls -> {state'[c] : c \in Controls}]
    BY <2>1
  <2> QED BY <2>2 DEF StateOK
<1>4. report # NoReport
  <2>1. report.id # NoReport.id
    BY Limits DEF NoReport
  <2> QED BY <2>1
<1>5. ASSUME NEW c \in Controls
      PROVE  Known(c)'
  <2>1. state'[c] = IF NamedBy(id, bits, c) THEN 1
                    ELSE IF InArray(id, c) THEN 0
                    ELSE Shown(id, bits, c, n)
    BY <1>1, <1>2, DecodedShows, VariablesShow
  <2>2. carried'[c] = IF carries(c) THEN report ELSE carried[c]
    BY <1>1
  <2>3. Known(c)
    BY DEF DecoderOK
  <2>4. NamedBy(id, bits, c) => InArray(id, c)
    BY DEF NamedBy, InArray
  <2>5. carries(c) <=> InArray(id, c) \/ Direct(id, c, n) # {}
    <3>1. Direct(id, c, n)
            = {i \in FieldsOf(id) : fields[i].kind # "array" /\ Carries(fields[i], c)}
      BY <1>2, DirectFields
    <3> QED BY <3>1 DEF InArray
  <2>6. /\ ReportShows(carried[c], c)' = ReportShows(carried'[c], c)
        /\ Listed(c)' = Listed(c)
    BY <1>1 DEF ReportShows, FieldsOf, Listed
  <2>7. CASE carries(c)
    <3>1. state'[c] = ReportShows(report, c)
      BY <1>2, <2>1, <2>4, <2>5, <2>7, ReportShowsIt
    <3>2. Listed(c)
      BY <1>2, <2>7, CountedListed DEF FieldsOf
    <3> QED BY <1>4, <2>2, <2>6, <2>7, <3>1, <3>2 DEF Known
  <2>8. CASE ~carries(c)
    <3>1. state'[c] = state[c] /\ carried'[c] = carried[c]
      BY <2>1, <2>2, <2>4, <2>5, <2>8 DEF Shown
    <3> QED BY <2>3, <2>6, <3>1 DEF Known
  <2> QED BY <2>7, <2>8
<1> QED BY <1>1, <1>3, <1>5 DEF DecoderOK

DecoderInv == Parsed /\ DecoderOK

LEMMA DecoderInit ==
  ASSUME Init
  PROVE  DecoderInv
<1>1. PICK items \in Descriptors : InitWith(items)
  BY DEF Init
<1>2. /\ state = [c \in Controls |-> Rest(c)]
      /\ carried = [c \in Controls |-> NoReport]
  BY <1>1 DEF InitWith
<1>3. \A c \in Controls : state[c] = Rest(c) /\ carried[c] = NoReport
  BY <1>2
<1>4. StateOK
  <2>1. state = [c \in Controls |-> state[c]]
    BY <1>2
  <2> QED BY <2>1 DEF StateOK
<1>5. DecoderOK
  BY <1>3, <1>4 DEF DecoderOK, AtRest, Known
<1> QED BY <1>5, ParsedInit DEF DecoderInv

\* The parser leaves the decoder alone, and the decoder waits for it.
LEMMA ParserStep ==
  ASSUME DecoderOK, phase # "ready", UNCHANGED <<state, carried>>
  PROVE  DecoderOK'
<1>1. \A c \in Controls : state'[c] = Rest(c) /\ carried'[c] = NoReport
  BY DEF DecoderOK, AtRest
<1>2. StateOK'
  BY DEF DecoderOK, StateOK
<1> QED BY <1>1, <1>2 DEF DecoderOK, AtRest, Known

LEMMA DecoderStep ==
  ASSUME DecoderInv, [Next]_vars
  PROVE  DecoderInv'
<1>1. Parsed'
  BY ParsedStep DEF DecoderInv
<1>2. CASE Parse \/ Finish
  <2>1. phase # "ready" /\ UNCHANGED <<state, carried>>
    BY <1>2 DEF Parse, Finish
  <2> QED BY <1>1, <2>1, ParserStep DEF DecoderInv
<1>3. CASE \E id \in ReportIds, bits \in Reports : Receive(id, bits)
  BY <1>1, <1>3, ReceiveStep DEF DecoderInv
<1>4. CASE UNCHANGED vars
  <2>1. UNCHANGED <<phase, state, carried, fields, description>>
    BY <1>4 DEF vars, parser
  <2>2. \A c \in Controls : Known(c)' <=> Known(c)
    BY <2>1 DEF Known, Listed, ReportShows, FieldsOf
  <2>3. DecoderOK'
    BY <2>1, <2>2 DEF DecoderInv, DecoderOK, StateOK, AtRest
  <2> QED BY <1>1, <2>3 DEF DecoderInv
<1> QED BY <1>2, <1>3, <1>4 DEF Next, Done

LEMMA DecoderInvHolds == Spec => []DecoderInv
BY DecoderInit, DecoderStep, PTL DEF Spec

\* Only controls the description counts leave their rest position
\* (StateIsDeclared): whatever adds a field counts its control, and the buttons
\* an array's elements can name are counted up to the last of its range.
THEOREM StateStaysDeclared == Spec => []StateIsDeclared
<1>1. DecoderInv => StateIsDeclared
  BY DEF DecoderInv, DecoderOK, Known, Listed, StateIsDeclared
<1> QED BY <1>1, DecoderInvHolds, PTL

\* The state shows of every control what the last report that carries it said
\* (StateIsLatest): decode_input changes the controls its report's fields carry
\* and keeps the others, and of several fields the last one stands.
THEOREM StateStaysLatest == Spec => []StateIsLatest
<1>1. DecoderInv => StateIsLatest
  BY DEF DecoderInv, DecoderOK, Known, StateIsLatest
<1> QED BY <1>1, DecoderInvHolds, PTL
=================================================================================
