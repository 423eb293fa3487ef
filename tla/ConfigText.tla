------------------------------ MODULE ConfigText ------------------------------
(***************************************************************************)
(* The two readers of configuration text: the recursive-descent JsonParser *)
(* on a sequence of tokens, and the indentation-based YamlParser on a      *)
(* sequence of lines.  Both are functions; the state is the input, which   *)
(* grows token by token and line by line.                                  *)
(***************************************************************************)
EXTENDS Naturals, Sequences, FiniteSets

CONSTANTS MaxTokens, MaxYamlLines, Indents   \* bounds of the input
ASSUME TextAssumption == MaxTokens \in Nat /\ MaxYamlLines \in Nat /\ Indents \subseteq Nat

VARIABLES tokens, yaml
textVars == <<tokens, yaml>>

\* A string or a number; booleans and null are read like numbers.
Scalars == {"s", "n"}
Tokens == Scalars \union {"[", "]", "{", "}", ",", ":"}

TextInit == tokens = <<>> /\ yaml = <<>>

-----------------------------------------------------------------------------
\* JsonParser: each parser maps a position to the position after what it read,
\* or to 0 if it fails.  peek is "" at the end.

peek(p) == IF p \in DOMAIN tokens THEN tokens[p] ELSE ""

parseString(p) == IF peek(p) = "s" THEN p + 1 ELSE 0

\* After the item that was read up to q comes the end, or a comma and what
\* more is read from there.
parseRest(q, close, more) ==
  CASE q = 0           -> 0
    [] peek(q) = close -> q + 1
    [] peek(q) = ","   -> more
    [] OTHER           -> 0

parseArray(p, elements) == IF peek(p + 1) = "]" THEN p + 2 ELSE elements

\* Mutant: a comma before the closing brace is accepted.
parseJsonLenient(p, members) ==
  CASE peek(p + 1) = "}" -> p + 2
    [] peek(p + 1) = "," /\ peek(p + 2) = "}" -> p + 3
    [] OTHER -> members

parseJsonObject(p, members) == IF peek(p + 1) = "}" THEN p + 2 ELSE members

\* Where the value, the elements and the members that begin at p end.  The
\* parsers call one another at later positions only.
parseAt[p \in 1 .. (MaxTokens + 2)] ==
  LET value == CASE peek(p) = "s" -> parseString(p)
                 [] peek(p) = "{" -> parseJsonObject(p, parseAt[p + 1].members)
                 [] peek(p) = "[" -> parseArray(p, parseAt[p + 1].elements)
                 [] peek(p) = "n" -> p + 1
                 [] OTHER         -> 0
      key == parseString(p)
      member == IF key # 0 /\ peek(key) = ":" THEN parseAt[key + 1].value ELSE 0
  IN  [value    |-> value,
       elements |-> parseRest(value, "]", parseAt[value + 1].elements),
       members  |-> parseRest(member, "}", parseAt[member + 1].members)]

parseValue(p) == parseAt[p].value

\* parse: nothing may follow the value.
JsonAccepted == parseValue(1) = Len(tokens) + 1

\* The grammar of JSON: are the tokens from i to j a value, elements, members?
Grammar[i \in 1 .. (MaxTokens + 1), j \in 0 .. MaxTokens] ==
  LET inner == IF i + 1 > j - 1 THEN [elements |-> i + 1 = j, members |-> i + 1 = j]
                                ELSE Grammar[i + 1, j - 1]
      value == \/ i = j /\ tokens[i] \in Scalars
               \/ /\ i < j
                  /\ \/ tokens[i] = "[" /\ tokens[j] = "]" /\ inner.elements
                     \/ tokens[i] = "{" /\ tokens[j] = "}" /\ inner.members
      member(k) == i + 2 <= k /\ tokens[i] = "s" /\ tokens[i + 1] = ":" /\ Grammar[i + 2, k].value
      commas == {k \in (i + 1) .. (j - 1) : tokens[k] = ","}
  IN  [value |-> value,
       elements |-> value \/ \E k \in commas : Grammar[i, k - 1].value /\ Grammar[k + 1, j].elements,
       members |-> member(j) \/ \E k \in commas : member(k - 1) /\ Grammar[k + 1, j].members]

IsJson == tokens # <<>> /\ Grammar[1, Len(tokens)].value

-----------------------------------------------------------------------------
\* YamlParser: a line is <<indent, key, block>>, block when nothing follows the
\* colon.  The result is a set of <<path of keys, block>>.

\* The end of the lines below line i: the first one not indented deeper.
nestedEnd(i, endLine) ==
  LET stop == {j \in (i + 1)..(endLine - 1) : yaml[j][1] <= yaml[i][1]}
  IN  IF stop = {} THEN endLine ELSE CHOOSE j \in stop : \A k \in stop : j <= k

\* The least indent of the lines below line i.
\* Mutant: they must be indented by four.
nestedIndentFour(i) == yaml[i][1] + 4

nestedIndent(i) == yaml[i][1] + 2

\* The key of line i with what is below it; a later key replaces it whole.
withKey(i, below, rest) ==
  LET key == yaml[i][2]
      here == {<<<<key>>, yaml[i][3]>>} \union {<<<<key>> \o x[1], x[2]>> : x \in below}
  IN  {x \in here : <<<<key>>, TRUE>> \notin rest /\ <<<<key>>, FALSE>> \notin rest} \union rest

\* Stops at a line indented less.
parseYamlObject[baseIndent \in Nat, startLine \in Nat, endLine \in Nat] ==
  IF startLine >= endLine \/ yaml[startLine][1] < baseIndent THEN {}
  ELSE LET end == IF yaml[startLine][3] THEN nestedEnd(startLine, endLine) ELSE startLine + 1
           below == IF yaml[startLine][3]
                    THEN parseYamlObject[nestedIndent(startLine), startLine + 1, end] ELSE {}
       IN  withKey(startLine, below, parseYamlObject[baseIndent, end, endLine])

\* What the indentation means: a line belongs to the nearest line above that
\* is indented less.
ParentLine(i) == LET up == {j \in 1..(i - 1) : yaml[j][1] < yaml[i][1]}
                 IN  IF up = {} THEN 0 ELSE CHOOSE j \in up : \A k \in up : k <= j
PathOf[i \in Nat] == IF i = 0 THEN <<>> ELSE Append(PathOf[ParentLine(i)], yaml[i][2])
Replaced[i \in Nat] ==
  /\ i # 0
  /\ \/ Replaced[ParentLine(i)]
     \/ \E j \in (i + 1)..Len(yaml) : ParentLine(j) = ParentLine(i) /\ yaml[j][2] = yaml[i][2]

\* Blocks are indented by two or more, consistently, from the margin.
WellIndented ==
  \A i \in DOMAIN yaml :
    LET p == ParentLine(i) IN
    IF p = 0 THEN yaml[i][1] = 0
    ELSE /\ yaml[p][3] /\ yaml[i][1] >= yaml[p][1] + 2
         /\ \A j \in (p + 1)..(i - 1) : ParentLine(j) = p => yaml[j][1] = yaml[i][1]

-----------------------------------------------------------------------------

addToken(t) == Len(tokens) < MaxTokens /\ yaml = <<>> /\ tokens' = Append(tokens, t) /\ yaml' = yaml
addLine(l) == Len(yaml) < MaxYamlLines /\ tokens = <<>> /\ yaml' = Append(yaml, l) /\ tokens' = tokens

TextNext ==
  \/ \E t \in Tokens : addToken(t)
  \/ \E l \in Indents \X {"a", "b"} \X BOOLEAN : addLine(l)

(***************************************************************************)
(* The JSON parser accepts exactly the texts of the grammar: no missing or *)
(* spare comma, bracket or colon and nothing after the value.  The YAML    *)
(* parser gives every key of a consistently indented text the path its     *)
(* indentation says, whatever the step (two or more), the last of two      *)
(* equal keys winning.                                                     *)
(***************************************************************************)
TextRead ==
  /\ JsonAccepted <=> IsJson
  /\ WellIndented =>
       parseYamlObject[0, 1, Len(yaml) + 1] =
         {<<PathOf[i], yaml[i][3]>> : i \in {j \in DOMAIN yaml : ~Replaced[j]}}
=============================================================================
