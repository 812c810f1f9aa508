-------------------------- MODULE MCSourceDescriptor --------------------------
\* Foreign descriptors of two or three blocks, each the items of one Input item,
\* with every report id announced, inherited or restored from the stack; and the
\* descriptors the generic profile builds.
EXTENDS GenericHidProfile

Paged(tag, page, value) == [tag |-> tag, value |-> value, page |-> page]

\* The range of values, the size and count of the fields, the Input item.
Shape(min, max, size, count, flags) ==
  <<Item("logical_min", min), Item("logical_max", max),
    Item("report_size", size), Item("report_count", count),
    Item("input", flags)>>

\* Two buttons of a range; the second of them again and one too many; an array
\* of two elements over three buttons; a hat with a null value; a signed and an
\* unsigned axis where a usage is missing for a third; motion; padding, padding
\* that wraps, and fields too wide to read.
Blocks == {
  <<Item("usage_page", ButtonPage), Item("usage_min", 1), Item("usage_max", 2)>>
    \o Shape(0, 1, 1, 2, "variable"),
  <<Paged("usage", ButtonPage, 2), Paged("usage", ButtonPage, 9)>>
    \o Shape(0, 1, 1, 2, "variable"),
  <<Item("usage_page", ButtonPage), Item("usage_min", 2), Item("usage_max", 4)>>
    \o Shape(0, 4, 2, 2, "array"),
  <<Item("usage_page", Desktop), Item("usage", HatSwitch)>>
    \o Shape(0, 2, 2, 1, "variable"),
  <<Item("usage_page", Desktop), Item("usage", 48), Item("usage", 49)>>
    \o Shape(-2, 1, 2, 3, "variable"),
  <<Item("usage_page", SensorPage), Item("usage", 1107)>>
    \o Shape(-2, 1, 2, 1, "variable"),
  Shape(0, 1, 1, 1, "constant"),
  Shape(0, 1, 256, 256, "constant"),
  <<Item("usage_page", Desktop), Item("usage", 50)>>
    \o Shape(0, 9, 16, 1, "variable")}

\* A block in report 1 or 2, or in the report of the block before.
Placed(block) ==
  {block, <<Item("report_id", 1)>> \o block, <<Item("report_id", 2)>> \o block,
   <<Item("push", 0), Item("report_id", 2)>> \o block \o <<Item("pop", 0)>>}

MCDescriptors ==
  LET placed == UNION {Placed(b) : b \in Blocks}
      padded == {p \in placed : Len(p) < 8}
  IN  {a \o b : a, b \in placed}
        \cup {a \o b \o c : a \in placed, b \in padded, c \in placed}
        \cup {<<Item("collection", 0), Item("pop", 0)>>,
              <<Item("skipped", 0), Item("report_id", 0)>>,
              <<Item("usage", 48), Item("truncated", 0)>>}

\* Nothing, a short report, and long ones with small and with large values.
MCReports == {<<>>, <<1, 0, 0>>, <<0, 1, 1, 0, 1, 0, 0, 1>>,
              <<1, 1, 0, 1, 0, 1, 1, 0>>}
MCReportIds == 0..2
-----------------------------------------------------------------------------
\* Bytes of four bits and axes of three, so that hats still have their nine
\* values; button counts below, at and above one byte; up to two axes with full
\* or positive range, one of them on a page no reader takes for an axis.
Full == [page |-> Desktop, usage |-> 48, min |-> -4, max |-> 3]
Trigger == [page |-> Desktop, usage |-> 50, min |-> 0, max |-> 3]
Throttle == [page |-> 2, usage |-> 187, min |-> 0, max |-> 3]

MCDescriptions ==
  [buttons : {0, 1, 4, 6}, hats : 0..2, battery : BOOLEAN, motion : BOOLEAN,
   axes : {<<>>, <<Full>>, <<Full, Trigger>>, <<Throttle, Full>>}]

\* Buttons none, the first and last, and all the state has; values at the ends
\* and beside zero, of the sign the axis has.
Axis(axis) == {axis.min, 1, axis.max}

MCInputStates(d) ==
  [buttons : {{}, {0, 5}, 0..5}, battery : {5},
   hats : [1..d.hats -> {0, 7, 8}],
   axes : {v \in [DOMAIN d.axes -> {-4, 0, 1, 3}] :
             \A i \in DOMAIN d.axes : v[i] \in Axis(d.axes[i])},
   motion : {<<0, -1, 3>>, <<-4, 2, 1>>}]

\* An axis whose stated range is not that of the values sent.
NarrowAxis ==
  [buttons : {0}, hats : {0}, battery : {FALSE}, motion : {FALSE},
   axes : {<<[page |-> Desktop, usage |-> 48, min |-> -1, max |-> 1]>>}]
AnyAxisValue(d) ==
  [buttons : {{}}, battery : {0}, hats : {<<>>}, motion : {<<0, 0, 0>>},
   axes : {<<v>> : v \in -4..3}]

NoDescriptors == {}
===============================================================================
