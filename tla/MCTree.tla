------------------------------- MODULE MCTree -------------------------------
(* Instances for TLC: a small language of statements, with one lifetime of *)
(* each kind, range and bracket on one of its parts.                       *)
EXTENDS Tree
CONSTANT text

\* A phase of number 2 with the actions 3 and 4, and the action 5 behind it.
MCIds == 2 .. 6
Begins == {NoRange} \cup [id : {2}, next : {5}, inclusive : BOOLEAN]
Ends == {NoRange} \cup [id : {4}, next : {5}, inclusive : BOOLEAN]
Of(types) == [type : types, begin : Begins, end : Ends]
                \cup [type : types, begin : {[id |-> 4, next |-> 5, inclusive |-> FALSE]},
                      end : {[id |-> 5, next |-> 6, inclusive |-> TRUE],
                             [id |-> 2, next |-> 5, inclusive |-> TRUE]}]
Kinds == {"disallowed", "allowed", "mandatory", "optional"}
Child(types, ctor, lifetimes) == [types |-> types, ctor |-> ctor, lifetimes |-> lifetimes]
Attribute(type, ctor, ag, lifetimes) ==
  [type |-> type, ctor |-> ctor, ag |-> ag, lifetimes |-> lifetimes]
Node(children, attributes, lifetimes) ==
  [children |-> children, attributes |-> attributes, lifetimes |-> lifetimes]

Always == [type |-> "mandatory", begin |-> NoRange, end |-> NoRange]
Statements ==
  [stmts |-> Node(<<Child({"assign", "loop"}, TRUE, <<Always>>), Child({"stmts"}, FALSE, <<>>)>>,
                  <<>>, <<>>),
   assign |-> Node(<<>>, <<Attribute("string", TRUE, FALSE, <<>>),
                           Attribute("link", FALSE, FALSE, <<>>)>>, <<>>),
   loop |-> Node(<<Child({"stmts"}, TRUE, <<>>)>>,
                 <<Attribute("link", FALSE, TRUE, <<>>)>>, <<>>)]
\* Two types only, one lifetime of any kind.
Pairs(ofChild, ofName, ofNode) ==
  [pair |-> Node(<<Child({"leaf"}, TRUE, ofChild)>>, <<>>, <<>>),
   leaf |-> Node(<<>>, <<Attribute("string", TRUE, FALSE, ofName)>>, ofNode)]
\* The three parts are checked on their own, so one lifetime serves all.
OneLifetime ==
  {Pairs(<<l>>, <<l>>, IF l.type \in {"disallowed", "allowed"} THEN <<l>> ELSE <<>>) :
     l \in Of(Kinds)}
MCGrammars == {Statements} \cup OneLifetime
=============================================================================
