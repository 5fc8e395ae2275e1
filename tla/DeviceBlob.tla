----------------------------- MODULE DeviceBlob -----------------------------
(***************************************************************************)
(* The tab-indented text of a device's diagnostic page as nested sections  *)
(* (src/pygira/commands/device.py, _parse_device_sections).                *)
(*                                                                         *)
(* A line is [depth, key, val]: its number of tabs, its key, and what      *)
(* comes after the colon, NoValue without one.  A section is named by the  *)
(* path of keys that leads to it; the result maps paths to their _val.  No *)
(* key is `_val` itself.                                                   *)
(***************************************************************************)
EXTENDS Naturals, Sequences, SequencesExt

NoValue == ""
Root == [depth |-> 0, path |-> <<>>]     \* the bottom of the stack; it is never popped

Shallower(stack, line) == {k \in DOMAIN stack : k = 1 \/ stack[k].depth < line.depth}

\* Mistake: a section stays open for a line as deep as itself.
PopBeyond(stack, line) ==
    SubSeq(stack, 1, Max({k \in DOMAIN stack : k = 1 \/ stack[k].depth <= line.depth}))

\* The stack after its top has been popped for as long as it is at least as deep as the line.
PopTo(stack, line) == SubSeq(stack, 1, Max(Shallower(stack, line)))

\* _parse_device_line: a section that exists is entered again, a value replaces one.
ParseLine(state, line) ==
    LET stack == PopTo(state.stack, line)
        path == Append(Last(stack).path, line.key)
        known == DOMAIN state.sections
    IN [stack |-> Append(stack, [depth |-> line.depth, path |-> path]),
        sections |-> [p \in known \cup {path} |->
                        IF p # path THEN state.sections[p]
                        ELSE IF line.val # NoValue THEN line.val
                        ELSE IF path \in known THEN state.sections[path] ELSE NoValue]]

NothingParsed == [stack |-> <<Root>>, sections |-> [p \in {} |-> NoValue]]
Parse(lines) == FoldLeft(ParseLine, NothingParsed, lines)
ParseSections(lines) == Parse(lines).sections

-----------------------------------------------------------------------------
(* What the indentation means, told without a stack *)

\* A line belongs to the nearest line before it that has fewer tabs.
Parent(lines, i) ==
    LET less == {j \in 1 .. i - 1 : lines[j].depth < lines[i].depth}
    IN IF less = {} THEN 0 ELSE Max(less)

PathOf(lines) ==
    LET path[i \in 0 .. Len(lines)] ==
            IF i = 0 THEN <<>> ELSE Append(path[Parent(lines, i)], lines[i].key)
    IN path

\* The parser finds the sections the indentation spells, and each has the last value
\* that was written for it (device.py:294-308).
BlobAgreesWithNesting(lines) ==
    LET path == PathOf(lines)
        sections == ParseSections(lines)
        valued(p) == {i \in DOMAIN lines : path[i] = p /\ lines[i].val # NoValue}
    IN /\ DOMAIN sections = {path[i] : i \in DOMAIN lines}
       /\ \A p \in DOMAIN sections :
            IF valued(p) = {} THEN sections[p] = NoValue
            ELSE \E i \in valued(p) : /\ sections[p] = lines[i].val
                                      /\ \A j \in valued(p) : j <= i
=============================================================================
