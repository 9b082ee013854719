----------------------------- MODULE ManagedBlock -----------------------------
(***************************************************************************)
(* The installer's edit of ~/.bashrc and ~/.profile (xtask): the block     *)
(* between two marker lines is taken out and put back at one end of the    *)
(* file, whatever the user did to the file between two installs.  A        *)
(* symbolic link is followed, once.                                        *)
(*                                                                         *)
(* A file is its lines.  cells[1] is the path itself; a cell that is a     *)
(* link points to the next one.                                            *)
(***************************************************************************)
EXTENDS Integers, Sequences, SequencesExt

CONSTANTS Placement,     \* "prepend" (.bashrc) or "append" (.profile)
          UserLines,     \* what users write, "" for a blank line
          MarkersCut,    \* the marker lines users also remove, of START and END
          Encodings,     \* SUBSET {"utf-8", "other"}: how the file is encoded
          MaxLines,      \* bound: lines a user leaves in the file
          MaxCutFrom,    \* bound: lines of a file of which a marker is cut
          MaxCells       \* bound: the path and the links it goes through

START == "# >>> moshwatch path >>>"
PATH == "[ -r path.sh ] && . path.sh"
END == "# <<< moshwatch path <<<"
Block == <<START, PATH, END>>
Link == <<"->">>

VARIABLES
  cells,      \* what each path of the chain holds: Link or lines
  encoding,   \* of the user's text
  installed    \* ghost: whether the last step was an install

vars == <<cells, encoding, installed>>

\* What reading the path gives: the first cell that is no link.
Target(c) == CHOOSE i \in 1..Len(c) : c[i] # Link /\ \A j \in 1..(i - 1) : c[j] = Link
Text(c) == c[Target(c)]

Init ==
  /\ \E n \in 1..MaxCells : cells = [i \in 1..n |-> IF i < n THEN Link ELSE <<>>]
  /\ encoding \in Encodings
  /\ installed = FALSE

-----------------------------------------------------------------------------
Positions(s, line) == {i \in 1..Len(s) : s[i] = line}
First(S) == CHOOSE i \in S : \A j \in S : i <= j

\* Error: the line after the end marker goes with the block.
StripOneLineMore(s) ==
  IF Positions(s, START) = {} \/ Positions(s, END) = {} THEN s
  ELSE SubSeq(s, 1, First(Positions(s, START)) - 1) \o SubSeq(s, First(Positions(s, END)) + 2, Len(s))

\* strip_managed_block: from each marker to the first end after it, until a
\* marker has no end.
RECURSIVE StripManagedBlock(_)
StripManagedBlock(s) ==
  IF Positions(s, START) = {} THEN s
  ELSE LET start == First(Positions(s, START))
           ends == {i \in Positions(s, END) : i > start}
       IN IF ends = {} THEN s
          ELSE StripManagedBlock(SubSeq(s, 1, start - 1) \o SubSeq(s, First(ends) + 1, Len(s)))

RECURSIVE TrimStart(_), TrimEnd(_)
TrimStart(s) == IF s # <<>> /\ Head(s) = "" THEN TrimStart(Tail(s)) ELSE s
TrimEnd(s) == IF s # <<>> /\ Last(s) = "" THEN TrimEnd(Front(s)) ELSE s


\* upsert_managed_block, the new text
Upsert(s) ==
  LET cleaned == StripManagedBlock(s)
  IN CASE TrimEnd(cleaned) = <<>> -> Block
       [] TrimEnd(cleaned) # <<>> /\ Placement = "prepend" -> Block \o <<"">> \o TrimStart(cleaned)
       [] TrimEnd(cleaned) # <<>> /\ Placement = "append" -> TrimEnd(cleaned) \o <<"">> \o Block

\* read_to_string(..).unwrap_or_default(): what is not UTF-8 reads as nothing.
ReadText == IF encoding = "utf-8" THEN Text(cells) ELSE <<>>

\* Error: the file is put in place of the link.
OverTheLink == 1
\* install_text_file_through_symlink: one hop.
Written == IF cells[1] = Link THEN 2 ELSE 1

Install ==
  /\ cells' = [cells EXCEPT ![Written] = Upsert(ReadText)]
  /\ encoding' = IF encoding = "utf-8" THEN encoding ELSE "utf-8"
  /\ installed' = TRUE

\* The user adds a line anywhere, or removes one.
UserAdds ==
  /\ Len(Text(cells)) < MaxLines
  /\ \E line \in UserLines, i \in 1..(Len(Text(cells)) + 1) :
       cells' = [cells EXCEPT ![Target(cells)] = InsertAt(Text(cells), i, line)]
  /\ installed' = FALSE /\ UNCHANGED encoding
UserRemoves ==
  /\ \E i \in 1..Len(Text(cells)) :
       /\ Text(cells)[i] \in {START, END} =>
            /\ Text(cells)[i] \in MarkersCut
            /\ Len(Text(cells)) <= MaxCutFrom
       /\ cells' = [cells EXCEPT ![Target(cells)] = RemoveAt(Text(cells), i)]
  /\ installed' = FALSE /\ UNCHANGED encoding

Next == Install \/ UserAdds \/ UserRemoves
Spec == Init /\ [][Next]_vars

-----------------------------------------------------------------------------
\* The user's own lines: not blank, and not between a marker and its end,
\* which must not have another marker between them.
Blocks(s) ==
  {i \in 1..Len(s) :
     \E a \in Positions(s, START), b \in Positions(s, END) :
       a <= i /\ i <= b /\ Positions(SubSeq(s, a + 1, b - 1), START) = {}
                        /\ Positions(SubSeq(s, a + 1, b - 1), END) = {}}
OwnLines(s) ==
  LET own == {i \in 1..Len(s) : i \notin Blocks(s) /\ s[i] \notin {"", START, PATH, END}}
  IN [k \in 1..Cardinality(own) |-> s[CHOOSE i \in own : Cardinality({j \in own : j < i}) = k - 1]]

\* An install changes none of the user's lines and keeps them in order: "do
\* not trample unrelated shell customizations".
KeepsOwnLines == installed' => OwnLines(Text(cells')) = OwnLines(Text(cells))
CustomisationsKept == [][KeepsOwnLines]_vars


\* Every link stays one, so that reading through them finds the file that was
\* theirs: true of one link, and not of a link that points to another.
LinksKept == \A i \in DOMAIN cells : cells[i] = Link => cells'[i] = Link
EveryLinkKept == [][LinksKept]_vars
=============================================================================
