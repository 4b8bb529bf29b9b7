------------------------------ MODULE JsonText ------------------------------
(***************************************************************************)
(* The json structure of libezcfg (common/json.c, over common/             *)
(* binary_tree.c and common/stack_list.c): a text is parsed into a tree    *)
(* with an explicit stack, the tree is written back with the same stack    *)
(* and a mark in every node, made into a list of name-value pairs, and     *)
(* reset.  Every allocation may fail.                                      *)
(*                                                                         *)
(* A text is a sequence of tokens.  White space, which skip_ws() drops     *)
(* between them, is left out, and so is the spelling of names, strings and *)
(* numbers; what counts of a token is its kind and its length.             *)
(***************************************************************************)
EXTENDS Naturals, Sequences, FiniteSets, SequencesExt

CONSTANT Texts \* the texts that may be parsed: sequences of tokens

VARIABLES
  pc,       \* "idle", "parse", "write", "list" or "free"
  text,     \* the text that was given
  cur,      \* the position in it
  node,     \* the nodes: type, left, right and the mark of the writer
  root,     \* the root of the tree, 0 when there is none
  stack,    \* the stack of nodes, its head first
  msg_len,  \* json->msg_len
  result,   \* of the last parse or write: "parsed", "rejected", "written",
            \* "unwritten", or "none" before the first
  nomem,    \* an allocation failed since the text was given
  out,      \* the tokens written
  np,       \* the node the list builder or the reset is at, 0 for none
  freed,    \* the nodes freed
  pairs,    \* name-value pairs in the list, by the node they came from
  twice     \* a pair was freed that the list frees, too

vars == <<pc, text, cur, node, root, stack, msg_len, result, nomem, out,
          np, freed, pairs, twice>>

Token(k) == IF k <= Len(text) THEN text[k] ELSE "end"
LengthOf(t) == CASE t = "str" -> 3 [] t = "lit" -> 4 [] OTHER -> 1
Lengths(s) == FoldSeq(LAMBDA t, n : n + LengthOf(t), 0, s)

(* local_json_value_create(): the type of the value that starts here.      *)
ValueType(t) ==
  CASE t = "{" -> "object" [] t = "[" -> "array" [] t = "str" -> "string"
    [] t = "num" -> "number" [] t = "lit" -> "literal" [] OTHER -> "none"

NewNode(type) == [type |-> type, left |-> 0, right |-> 0, visited |-> FALSE]

(* local_binary_tree_node_append_left/right(): as the last of the chain.   *)
LastRight(nodes, k) ==
  LET last[j \in DOMAIN nodes] ==
        IF nodes[j].right = 0 THEN j ELSE last[nodes[j].right]
  IN  last[k]
AppendRight(nodes, k, c) ==
  [nodes EXCEPT ![LastRight(nodes, k)].right = c]
AppendLeft(nodes, k, c) ==
  IF nodes[k].left = 0 THEN [nodes EXCEPT ![k].left = c]
  ELSE AppendRight(nodes, nodes[k].left, c)

Init ==
  /\ pc = "idle" /\ text = <<>> /\ cur = 1 /\ node = <<>> /\ root = 0
  /\ stack = <<>> /\ msg_len = 0 /\ result = "none" /\ nomem = FALSE
  /\ out = <<>> /\ np = 0 /\ freed = {} /\ pairs = {} /\ twice = FALSE

Others == <<out, freed, pairs, twice>>
Tree   == <<text, cur, node, root, msg_len>>

-----------------------------------------------------------------------------
(* local_json_reset(): the stack is emptied, then the tree.                *)

Reset(r) ==
  /\ stack' = <<>> /\ msg_len' = 0 /\ result' = r
  /\ root' = 0 /\ np' = root
  /\ pc' = (IF root = 0 THEN "idle" ELSE "free")
  /\ UNCHANGED <<text, cur, Others>>

(* One round of local_binary_tree_reset(): the leftmost node below np is   *)
(* freed and its right one takes its place; a node without a left one is   *)
(* freed and its right one is next, or, without a right one, the one       *)
(* above, which nobody ever sets.                                          *)
Leftmost(k) ==
  LET walk[j \in DOMAIN node] ==
        IF node[node[j].left].left = 0 THEN j ELSE walk[node[j].left]
  IN  walk[k]

(* Mutant: the leaf stays linked to its parent.                            *)
FreeKeepsLink ==
  /\ pc = "free"
  /\ IF node[np].left # 0
     THEN /\ freed' = freed \union {node[Leftmost(np)].left}
          /\ np' = Leftmost(np) /\ UNCHANGED pc
     ELSE /\ freed' = freed \union {np}
          /\ np' = node[np].right
          /\ pc' = IF node[np].right = 0 THEN "idle" ELSE "free"
  /\ UNCHANGED <<text, cur, node, root, stack, msg_len, result, nomem, out,
                 pairs, twice>>

FreeStep ==
  /\ pc = "free"
  /\ IF node[np].left # 0
     THEN LET p == Leftmost(np)
              leaf == node[p].left
          IN  /\ freed' = freed \union {leaf}
              /\ node' = [node EXCEPT ![p].left = node[leaf].right]
              /\ np' = p /\ UNCHANGED pc
     ELSE /\ freed' = freed \union {np}
          /\ np' = node[np].right
          /\ pc' = IF node[np].right = 0 THEN "idle" ELSE "free"
          /\ UNCHANGED node
  /\ UNCHANGED <<text, cur, root, stack, msg_len, result, nomem, out,
                 pairs, twice>>

-----------------------------------------------------------------------------
(* local_json_parse_text()                                                 *)

Malformed == UNCHANGED <<nomem, node>> /\ Reset("rejected")
(* A node could not be made, or was made but could not be pushed.          *)
NoMemory(nodes) == nomem' = TRUE /\ node' \in {node, nodes} /\ Reset("rejected")

StartsText(t) == IF t = <<>> THEN FALSE ELSE Head(t) \in {"{", "["}

(* A structure that was made and not yet given a text.                     *)
New == pc = "idle" /\ root = 0 /\ stack = <<>> /\ result = "none"

(* The root, which is an object or an array, and its place on the stack;   *)
(* without that place the loop ends at once.                               *)
ParseStart(t) ==
  /\ text' = t /\ cur' = 1 /\ np' = 0
  /\ \/ /\ ~StartsText(t)
        /\ result' = "rejected" /\ UNCHANGED <<pc, node, root, stack, nomem>>
     \/ /\ StartsText(t)
        /\ \/ /\ node' = <<NewNode(ValueType(Head(t)))>> /\ root' = 1
              /\ \/ pc' = "parse" /\ stack' = <<1>> /\ UNCHANGED <<result, nomem>>
                 \/ pc' = "parse" /\ stack' = <<>> /\ nomem' = TRUE
                    /\ UNCHANGED result
           \/ /\ result' = "rejected" /\ nomem' = TRUE
              /\ UNCHANGED <<pc, node, root, stack>>
  /\ UNCHANGED <<msg_len, Others>>

Top  == Head(stack)
Rest == Tail(stack)
Left  == node[Top].left
Right == node[Top].right
Fresh == Len(node) + 1

(* The parser moves on by k tokens, which it counts, and leaves the node   *)
(* it popped; or it makes a node, too, for which there may be no memory.   *)
Advance(k, nodes, st) ==
  /\ cur' = cur + k
  /\ msg_len' = msg_len + Lengths(SubSeq(text, cur, cur + k - 1))
  /\ node' = nodes /\ stack' = st
  /\ UNCHANGED <<pc, text, root, result, nomem, np, Others>>
(* Mutant: a pair that ends its object is put back.                        *)
LeaveStays(k) == Advance(k, node, IF k = 0 THEN stack ELSE Rest)
Leave(k) == Advance(k, node, Rest)
MoveOn(k, nodes, st) == Advance(k, nodes, st) \/ NoMemory(nodes)

AddLeft(type) == AppendLeft(Append(node, NewNode(type)), Top, Fresh)
AddRight(type) == AppendRight(Append(node, NewNode(type)), Top, Fresh)

(* An object or array with its first child, or the mark of an empty one.   *)
(* Mutant: an empty object or array is not expected.                       *)
OpenNeverEmpty(close, first) ==
  IF first = "none" THEN Malformed
  ELSE MoveOn(1, AddLeft(first), <<Fresh, Top>> \o Rest)
Open(close, first) ==
  \/ Token(cur + 1) = close /\ MoveOn(2, AddLeft("emptyset"), Rest)
  \/ /\ Token(cur + 1) # close
     /\ IF first = "none" THEN Malformed
        ELSE MoveOn(1, AddLeft(first), <<Fresh, Top>> \o Rest)

Parsing(type) ==
  pc = "parse" /\ Token(cur) # "end" /\ stack # <<>> /\ node[Top].type = type

ParseObject ==
  /\ Parsing("object")
  /\ \/ Left = 0 /\ Token(cur) = "{"
        /\ Open("}", IF Token(cur + 1) = "str" THEN "nvpair" ELSE "none")
     \/ Left # 0 /\ IF Right = 0 /\ Token(cur) = "}" THEN Leave(1) ELSE Malformed

(* A name, a colon and the first token of a value; after the value the end *)
(* of the object, which is left to the object, or the next pair.           *)
ParsePair ==
  /\ Parsing("nvpair")
  /\ \/ /\ Left = 0 /\ Token(cur) = "str" /\ Token(cur + 1) = ":"
        /\ ValueType(Token(cur + 2)) # "none"
        /\ MoveOn(2, AddLeft(ValueType(Token(cur + 2))), <<Fresh, Top>> \o Rest)
     \/ /\ Left = 0
        /\ \/ Token(cur) # "str" \/ Token(cur + 1) # ":"
           \/ ValueType(Token(cur + 2)) = "none"
        /\ Malformed
     \/ Left # 0 /\ Right = 0 /\ Token(cur) = "}" /\ Leave(0)
     \/ Left # 0 /\ Right = 0 /\ Token(cur) = ","
        /\ MoveOn(1, AddRight("nvpair"), <<Fresh>> \o Rest)
     \/ Left # 0 /\ (Right # 0 \/ Token(cur) \notin {"}", ","}) /\ Malformed

ParseArray ==
  /\ Parsing("array")
  /\ \/ Left = 0 /\ Token(cur) = "[" /\ Open("]", ValueType(Token(cur + 1)))
     \/ Left # 0 /\ Right = 0 /\ Token(cur) = "]" /\ Leave(1)
     \/ /\ Left # 0 /\ Right = 0 /\ Token(cur) = ","
        /\ IF ValueType(Token(cur + 1)) = "none" THEN Malformed
           ELSE MoveOn(1, AddLeft(ValueType(Token(cur + 1))), <<Fresh, Top>> \o Rest)
     \/ Left # 0 /\ (Right # 0 \/ Token(cur) \notin {"]", ","}) /\ Malformed

ParseLeaf ==
  \/ Parsing("literal") /\ Leave(1)
  \/ (Parsing("string") \/ Parsing("number")) /\ MoveOn(1, node, Rest)

ParseEnd ==
  /\ pc = "parse" /\ (Token(cur) = "end" \/ stack = <<>>)
  /\ IF Token(cur) = "end" /\ stack = <<>>
     THEN /\ pc' = "idle" /\ result' = "parsed"
          /\ UNCHANGED <<Tree, stack, nomem, np, Others>>
     ELSE Malformed

-----------------------------------------------------------------------------
(* local_json_write_message(json, buf, len)                                *)

Parsed == pc = "idle" /\ root # 0

(* A buffer that holds the text but not its end, or a stack that is in     *)
(* use, is refused.  The root is pushed without a look whether it was: the *)
(* loop then ends at once.                                                 *)
WriteStart(len) ==
  /\ Parsed
  /\ out' = <<>>
  /\ IF len <= msg_len \/ stack # <<>>
     THEN result' = "unwritten" /\ UNCHANGED <<pc, stack, nomem>>
     ELSE /\ pc' = "write" /\ UNCHANGED result
          /\ \/ stack' = <<root>> /\ UNCHANGED nomem
             \/ stack' = <<>> /\ nomem' = TRUE
  /\ UNCHANGED <<Tree, np, freed, pairs, twice>>

(* The tokens are written and the nodes of st pushed; a push that fails    *)
(* ends the call and leaves marks and stack as they are.                   *)
Emit(tokens, nodes, st) ==
  /\ out' = out \o tokens /\ node' = nodes
  /\ \/ stack' = st /\ UNCHANGED <<pc, result, nomem>>
     \/ /\ \E k \in Len(Rest) .. Len(st) - 1 :
             stack' = SubSeq(st, Len(st) - k + 1, Len(st))
        /\ pc' = "idle" /\ result' = "unwritten" /\ nomem' = TRUE
  /\ UNCHANGED <<text, cur, root, msg_len, np, freed, pairs, twice>>

Writing(types) ==
  /\ pc = "write" /\ Lengths(out) < msg_len /\ stack # <<>>
  /\ node[Top].type \in types

Marked(v) == [node EXCEPT ![Top].visited = v]
(* The next of the chain, after a comma.                                   *)
Next1 == IF Right = 0 THEN <<>> ELSE <<Right>>
Comma == IF Right = 0 THEN <<>> ELSE <<",">>

WriteContainer(type, open, close) ==
  /\ Writing({type})
  /\ IF ~node[Top].visited
     THEN Emit(<<open>>, Marked(TRUE),
               (IF Left = 0 THEN <<>> ELSE <<Left>>) \o stack)
     ELSE Emit(<<close>> \o Comma, Marked(FALSE), Next1 \o Rest)

(* Mutant: no comma after a pair.                                          *)
PairNoComma ==
  /\ Writing({"nvpair"})
  /\ IF ~node[Top].visited
     THEN Emit(<<"str", ":">>, Marked(TRUE), <<Left>> \o stack)
     ELSE Emit(<<>>, Marked(FALSE), Next1 \o Rest)
WritePair ==
  /\ Writing({"nvpair"})
  /\ IF ~node[Top].visited
     THEN Emit(<<"str", ":">>, Marked(TRUE), <<Left>> \o stack)
     ELSE Emit(Comma, Marked(FALSE), Next1 \o Rest)

TokenOf(type) ==
  CASE type = "string" -> <<"str">> [] type = "number" -> <<"num">>
    [] type = "literal" -> <<"lit">> [] OTHER -> <<>>

WriteLeaf ==
  /\ Writing({"string", "number", "literal", "emptyset"})
  /\ Emit(TokenOf(node[Top].type) \o Comma, node, Next1 \o Rest)

WriteEnd ==
  /\ pc = "write" /\ (Lengths(out) >= msg_len \/ stack = <<>>)
  /\ pc' = "idle"
  /\ result' = IF Lengths(out) = msg_len /\ stack = <<>> THEN "written" ELSE "unwritten"
  /\ UNCHANGED <<Tree, stack, nomem, np, Others>>

-----------------------------------------------------------------------------
(* local_json_is_nvram_representation() and                                *)
(* local_json_build_nvram_node_list()                                      *)

IsNvramPair(k) ==
  /\ node[k].type = "nvpair" /\ node[k].left # 0
  /\ node[node[k].left].type = "string"

Chain(k) ==
  LET from[j \in 0..Len(node)] ==
        IF j = 0 THEN {} ELSE {j} \union from[node[j].right]
  IN  from[k]

local_json_is_nvram_representation ==
  /\ root # 0 /\ node[root].type = "object"
  /\ \A k \in Chain(node[root].left) : IsNvramPair(k)

(* ezcfg_new() asks before it builds the list.                             *)
ListStart ==
  /\ Parsed /\ pairs = {} /\ local_json_is_nvram_representation
  /\ pc' = "list" /\ np' = node[root].left
  /\ UNCHANGED <<Tree, stack, result, nomem, Others>>

(* The way out of a failure frees data, the pair last made, and the list   *)
(* with the pairs in it.  data is only set when the next pair is made.     *)
ListFail(data) ==
  /\ pc' = "idle" /\ np' = 0 /\ pairs' = {}
  /\ twice' = (twice \/ data \cap pairs # {})

(* A pair is made and appended; or the pair, its name, its value or the    *)
(* place in the list cannot be allocated.                                  *)
ListStep ==
  /\ pc = "list" /\ np # 0
  /\ IF IsNvramPair(np)
     THEN \/ /\ pairs' = pairs \union {np} /\ np' = node[np].right
             /\ UNCHANGED <<pc, twice, nomem>>
          \/ ListFail({np}) /\ nomem' = TRUE
     ELSE /\ ListFail({k \in pairs : node[k].right = np})
          /\ UNCHANGED nomem
  /\ UNCHANGED <<Tree, stack, result, out, freed>>

ListEnd ==
  /\ pc = "list" /\ np = 0
  /\ pc' = "idle"
  /\ UNCHANGED <<Tree, stack, result, nomem, np, Others>>

-----------------------------------------------------------------------------

(* local_json_del(): what a caller does in the end, whatever the result.   *)
Delete == pc = "idle" /\ root # 0 /\ UNCHANGED <<nomem, node>> /\ Reset(result)

(* The structure is deleted; the next text is given to a new one.          *)
Done == pc = "idle" /\ root = 0 /\ result # "none"
Again ==
  /\ Done
  /\ text' = <<>> /\ cur' = 1 /\ node' = <<>> /\ freed' = {} /\ out' = <<>>
  /\ result' = "none" /\ nomem' = FALSE /\ np' = 0 /\ pairs' = {}
  /\ twice' = FALSE
  /\ UNCHANGED <<pc, root, stack, msg_len>>

ParseStep == ParseObject \/ ParsePair \/ ParseArray \/ ParseLeaf \/ ParseEnd
WriteStep == WriteContainer("object", "{", "}") \/ WriteContainer("array", "[", "]")
             \/ WritePair \/ WriteLeaf \/ WriteEnd
Step == ParseStep \/ WriteStep \/ ListStep \/ ListEnd \/ FreeStep

Next ==
  \/ New /\ \E t \in Texts : ParseStart(t)
  \/ \E len \in {msg_len, msg_len + 1} : WriteStart(len)
  \/ ListStart \/ Step \/ Delete \/ Again

(* A call that was started runs on.                                        *)
Fairness == WF_vars(Step)
Spec == Init /\ [][Next]_vars /\ Fairness
-----------------------------------------------------------------------------
(* The grammar of a json text, to compare the parser with: the position    *)
(* after the value, the pairs or the elements that start at position i, 0  *)
(* if none do.                                                             *)

After(t) ==
  LET tok(k) == IF k <= Len(t) THEN t[k] ELSE "end"
      more(v, close, same) == IF v = 0 THEN 0
                              ELSE IF tok(v) = "," THEN same
                              ELSE IF tok(v) = close THEN v + 1 ELSE 0
      after[what \in {"value", "pairs", "elements"}, i \in 1..Len(t) + 3] ==
        IF tok(i) = "end" THEN 0
        ELSE CASE what = "value" ->
                    CASE tok(i) \in {"str", "num", "lit"} -> i + 1
                      [] tok(i) = "{" -> IF tok(i + 1) = "}" THEN i + 2
                                         ELSE after["pairs", i + 1]
                      [] tok(i) = "[" -> IF tok(i + 1) = "]" THEN i + 2
                                         ELSE after["elements", i + 1]
                      [] OTHER -> 0
               [] what = "pairs" ->
                    IF tok(i) = "str" /\ tok(i + 1) = ":"
                    THEN LET v == after["value", i + 2]
                         IN  more(v, "}", after["pairs", v + 1])
                    ELSE 0
               [] what = "elements" ->
                    LET v == after["value", i]
                    IN  more(v, "]", after["elements", v + 1])
  IN  after

IsJson(t) ==
  /\ StartsText(t)
  /\ After(t)["value", 1] = Len(t) + 1

Descendants(k) ==
  LET below[j \in 0..Len(node)] ==
        IF j = 0 THEN {}
        ELSE {j} \union below[node[j].left] \union below[node[j].right]
  IN  below[k]

(* Type invariant.                                                         *)
TypeOK ==
  /\ pc \in {"idle", "parse", "write", "list", "free"}
  /\ cur \in 1..Len(text) + 1 /\ msg_len \in Nat
  /\ result \in {"none", "parsed", "rejected", "written", "unwritten"}
  /\ root \in 0..Len(node) /\ np \in 0..Len(node)
  /\ \A k \in DOMAIN stack : stack[k] \in DOMAIN node
  /\ freed \subseteq DOMAIN node /\ pairs \subseteq DOMAIN node

(* local_json_parse_text() accepts the texts of the grammar it quotes and  *)
(* no others, as long as there is memory.                                  *)
AcceptsJson ==
  /\ (Parsed /\ result = "parsed") => IsJson(text)
  /\ (result = "rejected" /\ ~nomem) => ~IsJson(text)

(* local_json_get_msg_len() is the length local_json_write_message() needs *)
(* and what is written is what was read; with room and memory it is        *)
(* written, even after an attempt for which the buffer was too small.      *)
WrittenAsRead ==
  /\ Parsed => msg_len = Lengths(text)
  /\ (pc = "idle" /\ result = "written") => out = text
  /\ (pc = "idle" /\ result = "unwritten" /\ out # <<>>) => nomem

(* Between calls the stack is empty and no node carries a mark of the      *)
(* writer, which the next write would trip over; only a write that ran out *)
(* of memory leaves them behind, and no write succeeds after it.           *)
CleanBetweenCalls ==
  (pc = "idle" /\ root # 0) =>
    \/ stack = <<>> /\ \A k \in DOMAIN node : ~node[k].visited
    \/ nomem /\ result = "unwritten"

(* Every node made is in the tree, so that it is found again when the text *)
(* is reset, also when the parser stops at any point.                      *)
Attached == root # 0 => Descendants(root) = DOMAIN node

(* The reset frees no node twice and walks over none it has freed.         *)
FreedOnce ==
  pc = "free" => /\ np \notin freed
                 /\ Descendants(np) \cap freed = {}

(* local_json_build_nvram_node_list() frees no pair that is in the list.   *)
PairsFreedOnce == ~twice

(* Every call returns.                                                     *)
CallsEnd == pc # "idle" ~> pc = "idle"

(* json.c, binary_tree.c and stack_list.c: stack and marks are clean       *)
(* between calls, every node stays in the tree, and no node and no pair is *)
(* freed twice, wherever an allocation fails.                              *)
TreeOwned ==
  TypeOK /\ CleanBetweenCalls /\ Attached /\ FreedOnce /\ PairsFreedOnce
=============================================================================
