--------------------------- MODULE SourceDescriptor ---------------------------
(***************************************************************************)
(* The generic codec of a source: DescriptorBuilder reads a HID report      *)
(* descriptor item by item and lays out the fields of its input reports,    *)
(* DescriptorSourceCodec then decodes each report into the state it keeps.  *)
(*                                                                         *)
(* An item is a record; its prefix byte, its size and the sign extension of *)
(* its data are read already.  A report is a sequence of bits, lowest first.*)
(* Of the generic desktop page the hat switch and two axes are kept, of the *)
(* sensors page the accelerometer; the scaling of motion is left out.       *)
(***************************************************************************)
EXTENDS Integers, Sequences, SequencesExt

CONSTANTS
  Descriptors,    \* sequences of items a source may announce
  ReportIds,      \* the ids of its reports, 0 for a descriptor without ids
  Reports,        \* sequences of bits it may send
  MaxButtons,     \* kMaxButtons, 64 in the code
  MaxHats,        \* kMaxHats, 4 in the code
  MaxAxes,        \* kMaxAxes, 16 in the code
  MaxFieldBits,   \* widest field read, 63 in the code
  AxisBits,       \* bits of a normalized axis, 16 in the code
  Word            \* modulus of report_size * report_count, 2^32 in the code

\* The flags of an Input item that matter here: an array or one value each,
\* or nothing to read.
InputFlags == {"constant", "array", "variable"}

\* Limits are signed numbers, everything else is not.
Items ==
  [tag : {"input"}, value : InputFlags, page : Nat]
    \cup [tag : {"logical_min", "logical_max"}, value : Int, page : Nat]
    \cup [tag : {"usage_page", "report_size", "report_id", "report_count", "usage",
                 "usage_min", "usage_max", "push", "pop", "collection", "skipped",
                 "truncated"}, value : Nat, page : Nat]

ASSUME DescriptorAssumption ==
  /\ ReportIds \subseteq 0..255 /\ 0 \in ReportIds
  /\ Descriptors \subseteq Seq(Items)
  /\ \A items \in Descriptors : \A i \in DOMAIN items :
       items[i].tag = "report_id" /\ items[i].value \in 1..255 =>
         items[i].value \in ReportIds
  /\ {MaxButtons, MaxHats, MaxAxes, MaxFieldBits, AxisBits, Word} \subseteq Nat
  /\ AxisBits > 0 /\ Word > 0

VARIABLES
  phase,         \* "parsing", then "refused" or "ready"
  rest,          \* items not read yet
  global,        \* GlobalState
  local,         \* LocalState
  stack,         \* global_stack
  offsets,       \* input_offsets
  fields,        \* fields_
  description,   \* button_count, hat_count, axes and motion_flags
  wrapped,       \* history: an item's product of size and count wrapped
  state,         \* state_ of the decoder
  carried        \* the report that last carried each control

parser == <<rest, global, local, stack, offsets, fields, description, wrapped>>
vars == <<phase, parser, state, carried>>

(***************************************************************************)
(* Controls.                                                               *)
(***************************************************************************)
Desktop == 1
ButtonPage == 9
SensorPage == 32
HatSwitch == 57
AxisUsages == 48..56
AccelerationUsages == 1107..1109

ButtonControls == [kind : {"button"}, index : 0..(MaxButtons - 1)]
HatControls == [kind : {"hat"}, index : 0..(MaxHats - 1)]
AxisControls == [kind : {"axis"}, index : 0..(MaxAxes - 1)]
MotionControls == [kind : {"motion"}, index : 0..2]
Controls ==
  ButtonControls \cup HatControls \cup AxisControls \cup MotionControls

\* What a control shows before any report, and the released button.
Rest(control) ==
  CASE control.kind = "hat" -> 8
    [] OTHER -> 0

NoUsage == [page |-> 0, usage |-> 0]
NoLocal == [usages |-> <<>>, min |-> <<>>, max |-> <<>>]
NoReport == [id |-> -1, bits |-> <<>>]

(***************************************************************************)
(* Items.                                                                  *)
(***************************************************************************)
GlobalTags == {"usage_page", "logical_min", "logical_max", "report_size",
               "report_id", "report_count"}

\* usage_from_item: a four-byte usage names its page, another takes the page
\* in force where it stands.
UsageFromItem(item) ==
  IF item.page # 0 THEN [page |-> item.page, usage |-> item.value]
  ELSE [page |-> global.usage_page, usage |-> item.value]

\* usage_for_index: listed usages first, then the range, then none.
UsageForIndex(index) ==
  IF index < Len(local.usages) THEN local.usages[index + 1]
  ELSE IF /\ local.min # <<>> /\ local.max # <<>>
          /\ local.min[1].usage + index <= local.max[1].usage
       THEN [page |-> local.min[1].page, usage |-> local.min[1].usage + index]
       ELSE [NoUsage EXCEPT !.page = global.usage_page]

Field(kind, index, offset, first, last) ==
  [id |-> global.report_id, offset |-> offset, size |-> global.report_size,
   min |-> global.logical_min, max |-> global.logical_max,
   kind |-> kind, index |-> index, first |-> first, last |-> last]

\* Wider fields are passed over.
Readable == global.report_size <= MaxFieldBits

\* add_variable_field: at most one field for the usage, and the description
\* that counts it.  acc holds the fields and the description so far.
AddVariableField(acc, usage, offset) ==
  LET d == acc.description
      with(field, changed) ==
        [fields |-> Append(acc.fields, field), description |-> changed]
  IN  IF ~Readable THEN acc
      ELSE CASE usage.page = ButtonPage /\ usage.usage \in 1..MaxButtons ->
             with(Field("button", usage.usage - 1, offset, 0, 0),
                  [d EXCEPT !.buttons = Max({@, usage.usage})])
        [] usage = [page |-> Desktop, usage |-> HatSwitch]
             /\ d.hats < MaxHats ->
             with(Field("hat", d.hats, offset, 0, 0), [d EXCEPT !.hats = @ + 1])
        [] usage.page = Desktop /\ usage.usage \in AxisUsages
             /\ Len(d.axes) < MaxAxes ->
             with(Field("axis", Len(d.axes), offset, 0, 0),
                  [d EXCEPT !.axes = Append(@,
                     [usage |-> usage.usage,
                      unipolar |-> global.logical_min >= 0])])
        [] usage.page = SensorPage /\ usage.usage \in AccelerationUsages ->
             with(Field("motion", usage.usage - 1107, offset, 0, 0),
                  [d EXCEPT !.motion = TRUE])
        [] OTHER -> acc

\* Mutant: the buttons of an array are not counted.
ArrayUncounted == description.buttons

\* The button count with the array in force.
ArrayCounted ==
  Max({description.buttons, Min({local.max[1].usage, MaxButtons})})

\* add_array_fields: one field per element, each for all buttons of the range.
AddArrayFields(offset) ==
  IF \/ ~Readable
     \/ local.min = <<>> \/ local.max = <<>>
     \/ local.min[1].page # ButtonPage \/ local.max[1].page # ButtonPage
  THEN UNCHANGED <<fields, description>>
  ELSE /\ fields' = fields \o
            [i \in 1..global.report_count |->
               Field("array", 0,
                     offset + (((i - 1) * global.report_size) % Word),
                     local.min[1].usage, local.max[1].usage)]
       /\ description' = [description EXCEPT !.buttons = ArrayCounted]

AddVariableFields(offset) ==
  LET add(acc, i) ==
        AddVariableField(acc, UsageForIndex(i),
                         offset + i * global.report_size)
      all == FoldLeft(add, [fields |-> fields, description |-> description],
                      [i \in 1..global.report_count |-> i - 1])
  IN  /\ fields' = all.fields
      /\ description' = all.description

\* Mutant: an array takes the bits of one element.
AdvanceOfOne(flags) ==
  LET bits == global.report_size * global.report_count
  IN  IF flags = "array" THEN global.report_size
      ELSE IF flags = "variable" THEN bits ELSE bits % Word

\* The bits an item takes: one by one for variables, else a 32-bit product.
Advance(flags) ==
  LET bits == global.report_size * global.report_count
  IN  IF flags = "variable" THEN bits ELSE bits % Word

\* add_input_fields: the flags choose what the item adds; its bits are passed
\* over in any case.
AddInputFields(flags) ==
  LET id == global.report_id
      offset == offsets[id]
      bits == global.report_size * global.report_count
  IN  IF bits = 0 THEN UNCHANGED <<fields, description, offsets, wrapped>>
      ELSE /\ wrapped' = (wrapped \/ (flags # "variable" /\ bits >= Word))
           /\ offsets' = [offsets EXCEPT ![id] = @ + Advance(flags)]
           /\ CASE flags = "constant" -> UNCHANGED <<fields, description>>
                [] flags = "array" -> AddArrayFields(offset)
                [] flags = "variable" -> AddVariableFields(offset)

(***************************************************************************)
(* DescriptorBuilder::parse, one item at a time.                           *)
(***************************************************************************)
Refuse ==
  /\ phase' = "refused"
  /\ rest' = <<>>
  /\ UNCHANGED <<global, local, stack, offsets, fields, description, wrapped>>

Keep == phase' = phase /\ rest' = Tail(rest)

\* Main items end the life of the local ones; only Input adds fields.
ParseMain(item) ==
  /\ item.tag \in {"input", "collection"}
  /\ IF item.tag = "input" THEN AddInputFields(item.value)
     ELSE UNCHANGED <<fields, description, offsets, wrapped>>
  /\ local' = NoLocal
  /\ UNCHANGED <<global, stack>>
  /\ Keep

ParseGlobal(item) ==
  /\ item.tag \in GlobalTags
  /\ IF item.tag = "report_id" /\ item.value \notin 1..255 THEN Refuse
     ELSE /\ global' = [global EXCEPT ![item.tag] = item.value]
          /\ UNCHANGED <<local, stack, offsets, fields, description, wrapped>>
          /\ Keep

ParsePush(item) ==
  /\ item.tag = "push"
  /\ stack' = Append(stack, global)
  /\ UNCHANGED <<global, local, offsets, fields, description, wrapped>>
  /\ Keep

ParsePop(item) ==
  /\ item.tag = "pop"
  /\ IF stack = <<>> THEN Refuse
     ELSE /\ global' = Last(stack)
          /\ stack' = Front(stack)
          /\ UNCHANGED <<local, offsets, fields, description, wrapped>>
          /\ Keep

ParseLocal(item) ==
  /\ item.tag \in {"usage", "usage_min", "usage_max"}
  /\ local' =
       CASE item.tag = "usage" ->
              [local EXCEPT !.usages = Append(@, UsageFromItem(item))]
         [] item.tag = "usage_min" ->
              [local EXCEPT !.min = <<UsageFromItem(item)>>]
         [] item.tag = "usage_max" ->
              [local EXCEPT !.max = <<UsageFromItem(item)>>]
  /\ UNCHANGED <<global, stack, offsets, fields, description, wrapped>>
  /\ Keep

\* Long items and unknown tags are passed over; an item cut off by the end of
\* the descriptor refuses it.
ParseOther(item) ==
  \/ /\ item.tag = "skipped"
     /\ Keep
     /\ UNCHANGED <<global, local, stack, offsets, fields, description, wrapped>>
  \/ item.tag = "truncated" /\ Refuse

Parse ==
  /\ phase = "parsing" /\ rest # <<>>
  /\ LET item == Head(rest)
     IN  \/ ParseMain(item) \/ ParseGlobal(item) \/ ParseLocal(item)
         \/ ParsePush(item) \/ ParsePop(item) \/ ParseOther(item)
  /\ UNCHANGED <<state, carried>>

\* The end of the descriptor; one without a field is of no use.
Finish ==
  /\ phase = "parsing" /\ rest = <<>>
  /\ phase' = IF fields = <<>> THEN "refused" ELSE "ready"
  /\ UNCHANGED <<parser, state, carried>>

(***************************************************************************)
(* DescriptorSourceCodec::decode_input.                                    *)
(***************************************************************************)
\* read_bits: bits beyond the end of a short report read as 0.
ReadBits(bits, offset, size) ==
  FoldLeft(LAMBDA sum, i : IF offset + i <= Len(bits)
                           THEN sum + bits[offset + i] * 2^(i - 1) ELSE sum,
           0, [i \in 1..size |-> i])

\* signed_value, for the fields whose logical minimum is negative.
Value(field, raw) ==
  IF field.min < 0 /\ raw >= 2^(field.size - 1) THEN raw - 2^field.size
  ELSE raw

\* lround of a quotient, half away from zero.
Round(a, b) ==
  IF a >= 0 THEN (2 * a + b) \div (2 * b) ELSE -((2 * (-a) + b) \div (2 * b))

AxisMax == 2^(AxisBits - 1) - 1

\* normalize_axis: the logical range on all of int16_t, or on its positive
\* half when it has no negative values.
NormalizeAxis(value, min, max) ==
  LET range == max - min
      part == Min({Max({value - min, 0}), range})
  IN  IF max <= min THEN 0
      ELSE IF min >= 0 THEN Round(part * AxisMax, range)
      ELSE Round(part * (2 * AxisMax + 1) - (AxisMax + 1) * range, range)

NormalizeHat(value, min, max) ==
  IF value \in min..max THEN Min({value - min, 7}) ELSE 8

\* What a field other than one of an array says of its control.
FieldShows(field, bits) ==
  LET raw == ReadBits(bits, field.offset, field.size)
      value == Value(field, raw)
  IN  CASE field.kind = "button" -> IF raw # 0 THEN 1 ELSE 0
        [] field.kind = "hat" -> NormalizeHat(value, field.min, field.max)
        [] field.kind = "axis" -> NormalizeAxis(value, field.min, field.max)
        [] field.kind = "motion" -> value

\* Mutant: an element holds the index of a button, not its number.
NamedByIndex(field, bits) ==
  LET raw == ReadBits(bits, field.offset, field.size)
  IN  {b \in 0..(MaxButtons - 1) :
         raw = b /\ raw >= field.first /\ raw <= field.last}

\* The button an element of an array names, of those the state holds.
Named(field, bits) ==
  LET raw == ReadBits(bits, field.offset, field.size)
  IN  {b \in 0..(MaxButtons - 1) :
         raw = b + 1 /\ raw >= field.first /\ raw <= field.last}

\* The buttons of an array, released unless an element names them.
Covered(field) ==
  {b \in 0..(MaxButtons - 1) : b + 1 >= field.first /\ b + 1 <= field.last}

ControlOf(field) == [kind |-> field.kind, index |-> field.index]

FieldsOf(id) == {i \in DOMAIN fields : fields[i].id = id}

\* The fields of a report, read in order into the state kept.
VariablesRead(id, bits) ==
  LET read(shown, f) ==
        IF f.id # id \/ f.kind = "array" THEN shown
        ELSE [shown EXCEPT ![ControlOf(f)] = FieldShows(f, bits)]
  IN  FoldLeft(read, state, fields)

\* The state after a report: the variables, then the arrays.
Decoded(id, bits) ==
  LET arrays == {i \in FieldsOf(id) : fields[i].kind = "array"}
      named == UNION {Named(fields[i], bits) : i \in arrays}
      covered == UNION {Covered(fields[i]) : i \in arrays}
      variables == VariablesRead(id, bits)
  IN  [c \in Controls |->
         IF c.kind = "button" /\ c.index \in named THEN 1
         ELSE IF c.kind = "button" /\ c.index \in covered THEN 0
         ELSE variables[c]]

\* A field says something of a control.
Carries(field, control) ==
  IF field.kind = "array"
  THEN control.kind = "button" /\ control.index \in Covered(field)
  ELSE ControlOf(field) = control

\* An input report of an announced id.  Others change nothing.
Receive(id, bits) ==
  /\ phase = "ready"
  /\ FieldsOf(id) # {}
  /\ state' = Decoded(id, bits)
  /\ carried' = [c \in Controls |->
       IF \E i \in FieldsOf(id) : Carries(fields[i], c)
       THEN [id |-> id, bits |-> bits] ELSE carried[c]]
  /\ UNCHANGED <<phase, parser>>

InitWith(items) ==
  /\ phase = "parsing"
  /\ rest = items
  /\ global = [usage_page |-> 0, logical_min |-> 0, logical_max |-> 1,
               report_size |-> 0, report_id |-> 0, report_count |-> 0]
  /\ local = NoLocal
  /\ stack = <<>>
  /\ offsets = [id \in ReportIds |-> 0]
  /\ fields = <<>>
  /\ description = [buttons |-> 0, hats |-> 0, axes |-> <<>>, motion |-> FALSE]
  /\ wrapped = FALSE
  /\ state = [c \in Controls |-> Rest(c)]
  /\ carried = [c \in Controls |-> NoReport]

Init == \E items \in Descriptors : InitWith(items)

\* The codec refused its descriptor, or a source stopped sending.
Done == phase = "refused" /\ UNCHANGED vars

Next ==
  \/ Parse
  \/ Finish
  \/ \E id \in ReportIds, bits \in Reports : Receive(id, bits)
  \/ Done

Spec == Init /\ [][Next]_vars

(***************************************************************************)
(* Properties.                                                             *)
(***************************************************************************)
\* Two fields of a report share no bit, whatever order the items of several
\* reports come in and whatever is pushed and popped between them, as long as
\* no item's report_size * report_count wraps.
FieldsAreDisjoint ==
  ~wrapped =>
    \A i, j \in DOMAIN fields :
      i < j /\ fields[i].id = fields[j].id =>
        \/ fields[i].offset + fields[i].size <= fields[j].offset
        \/ fields[j].offset + fields[j].size <= fields[i].offset

\* What a report says of a control, by definition: a button of an array is
\* pressed when an element names it, another control shows its last field.
ReportShows(report, control) ==
  LET own == FieldsOf(report.id)
      arrays == {i \in own :
                   fields[i].kind = "array" /\ Carries(fields[i], control)}
      direct == {i \in own :
                   fields[i].kind # "array" /\ Carries(fields[i], control)}
  IN  IF arrays # {}
      THEN IF \E i \in arrays :
                ReadBits(report.bits, fields[i].offset, fields[i].size)
                  = control.index + 1
           THEN 1 ELSE 0
      ELSE FieldShows(fields[Max(direct)], report.bits)

\* The state shows of every control what the last report that carries it said,
\* however many reports of other ids came since: the state is kept between
\* reports, arrays release only their own buttons, and two reports may share
\* one.
StateIsLatest ==
  \A c \in Controls :
    state[c] = IF carried[c] = NoReport THEN Rest(c)
               ELSE ReportShows(carried[c], c)

\* Only controls the description counts ever leave their rest position: the
\* profile built from the description drops the others.
StateIsDeclared ==
  \A c \in Controls : state[c] # Rest(c) =>
    CASE c.kind = "button" -> c.index < description.buttons
      [] c.kind = "hat" -> c.index < description.hats
      [] c.kind = "axis" -> c.index < Len(description.axes)
      [] c.kind = "motion" -> description.motion
===============================================================================
