----------------------------- MODULE MCCocogen -----------------------------
EXTENDS Cocogen

Classic(n) == [name |-> n, kind |-> "classic", type |-> 0, constructor |-> FALSE,
               lifetimes |-> FALSE, propagated |-> FALSE]
Inherited(n) == [Classic(n) EXCEPT !.kind = "inherited"]
Synthesized(n) == [Classic(n) EXCEPT !.kind = "synthesized"]
Child(n, t) == [name |-> n, type |-> t]
INode(n, r, kids, attrs, eqs) == [name |-> n, root |-> r, children |-> kids, attrs |-> attrs, eqs |-> eqs]
INodeset(n, e, attrs) == [name |-> n, expr |-> e, attrs |-> attrs]
Traversal(n, u, e) == [name |-> n, uid |-> u, expr |-> e, data |-> <<>>]
File(nodes, sets, travs) == [phases |-> <<>>, traversals |-> travs, passes |-> <<>>,
                             nodes |-> nodes, sets |-> sets, enums |-> <<>>]
NoExpr == [op |-> "none"]
Ids(s) == [op |-> "set", ids |-> s]
Ref(s) == [op |-> "ref", id |-> s]
Op(o, l, r) == [op |-> o, left |-> l, right |-> r]
MCReserved == {9}

(* Dependencies: all sequences without repetition of a set, sorted. *)
Deps(S) == {SetToSortSeq(T, LAMBDA p, q : TRUE) : T \in SUBSET S}
NoEqs == [r \in {} |-> <<>>]

(* Two nodesets of the nodes 2, 3 and 4 below the root 1. *)
Sets(names, expr5, expr6, attr5, attr6, attr2, trav) ==
  File(<<INode(1, TRUE, <<Child("c", 5), Child("d", 2)>>, <<>>, NoEqs),
         INode(2, FALSE, <<Child("e", names[1])>>, attr2, NoEqs),
         INode(3, FALSE, <<Child("e", 4)>>, <<>>, NoEqs),
         INode(names[2], FALSE, <<>>, <<>>, NoEqs)>>,
       <<INodeset(5, expr5, attr5), INodeset(6, expr6, attr6)>>,
       <<Traversal(7, names[3], trav)>>)
Exprs5 == {Ids(<<2>>), Ids(<<3, 2>>), Ids(<<4, 2, 3>>), Ref(6)}
Exprs6 == {Ref(5), Ids(<<2, 3>>), Op("|", Ref(5), Ids(<<4>>)), Op("&", Ref(5), Ids(<<2, 4>>)),
           Op("-", Ref(5), Ids(<<2>>)), Op("|", Op("&", Ref(5), Ids(<<3, 4>>)), Ids(<<2>>))}
Attributes5 == {<<>>, <<Classic("v")>>}
Attributes6 == {<<>>, <<Classic("v")>>, <<Classic("w"), Classic("v")>>, <<[Classic("v") EXCEPT !.constructor = TRUE]>>}
Attributes2 == {<<>>, <<Classic("v")>>, <<[Classic("v") EXCEPT !.constructor = TRUE]>>,
                <<[Classic("x") EXCEPT !.type = 5]>>}
Targets == {NoExpr, Ids(<<4>>), Ref(6), Op("-", Ref(6), Ref(5))}
Setups == {Sets(<<2, 4, 0>>, e5, e6, a5, a6, a2, t) :
             e5 \in Exprs5, e6 \in Exprs6, a5 \in Attributes5, a6 \in Attributes6, a2 \in Attributes2, t \in Targets}
Misnamed == {Sets(n, Ids(<<2>>), e6, <<>>, <<>>, <<>>, t) :
               n \in {<<8, 4, 0>>, <<2, 9, 0>>, <<2, 3, 0>>, <<2, 4, 3>>, <<2, 4, 9>>, <<6, 4, 8>>},
               e6 \in Exprs6, t \in Targets}

(* A child that is a nodeset of two nodes, or a node. *)
T(c, a) == <<c, a>>
Rule(r, d) == r :> d
Attrs3 == <<Inherited("i"), Synthesized("a"), Synthesized("b")>>
Under(t, ci) == INode(1, TRUE, <<Child("c", t)>>, <<>>, Rule(T("c", "i"), ci))
Member(n, da, db) == INode(n, FALSE, <<>>, <<>>, Rule(T(Self, "a"), da) @@ Rule(T(Self, "b"), db))
OwnI == {T(Self, "i")}
OfChild(c) == {T(c, "a"), T(c, "b")}
Alternating == {File(<<Under(4, ci), Member(2, da2, db2), Member(3, da3, db3)>>,
                 <<INodeset(4, Ids(ids), Attrs3)>>, <<>>) :
              ci \in Deps(OfChild("c")), da2 \in Deps(OwnI), db2 \in Deps(OwnI),
              da3 \in Deps(OwnI), db3 \in Deps(OwnI), ids \in {<<2, 3>>, <<3, 2>>, <<2>>, <<>>}}

(* A chain of nodes. *)
Middle(di, da, db) ==
  INode(2, FALSE, <<Child("d", 3)>>, Attrs3,
        Rule(T(Self, "a"), da) @@ Rule(T(Self, "b"), db) @@ Rule(T("d", "i"), di))
Leaf(da, db) == [Member(3, da, db) EXCEPT !.attrs = Attrs3]
Chains == {File(<<Under(2, ci), Middle(di, da, db), Leaf(la, lb)>>, <<>>, <<>>) :
             ci \in Deps({T("c", "a")}), di \in Deps(OwnI \cup {T("d", "a")}),
             da \in Deps(OwnI \cup OfChild("d")), db \in Deps(OwnI \cup {T("d", "b")}),
             la \in Deps(OwnI), lb \in Deps(OwnI)}

(* Two children of one type, which wait for each other's second visit. *)
Attrs4 == <<Inherited("x"), Synthesized("a"), Inherited("i"), Synthesized("t")>>
Twins == {File(<<INode(1, TRUE, <<Child("c", 2), Child("d", 2)>>, <<>>,
                       Rule(T("c", "x"), cx) @@ Rule(T("d", "x"), dx)
                         @@ Rule(T("c", "i"), <<T("c", "a")>>) @@ Rule(T("d", "i"), di)),
                 INode(2, FALSE, <<>>, Attrs4, Rule(T(Self, "a"), <<>>) @@ Rule(T(Self, "t"), dt))>>,
               <<>>, <<>>) :
            cx \in Deps({T("d", "t")}), dx \in Deps({T("c", "t")}), di \in Deps({T("d", "a"), T("c", "t")}),
            dt \in Deps({T(Self, "x"), T(Self, "i")})}

(* Members of a nodeset with different numbers of visits. *)
Attrs5 == <<Synthesized("a"), Inherited("i"), Synthesized("b"), Inherited("j")>>
Either(n, d) == INode(n, FALSE, <<>>, <<>>, Rule(T(Self, "a"), <<>>) @@ Rule(T(Self, "b"), d))
Uneven == {File(<<INode(1, TRUE, <<Child("c", 4), Child("d", 4)>>, <<>>,
                        Rule(T("c", "i"), ci) @@ Rule(T("c", "j"), cj)
                          @@ Rule(T("d", "i"), <<T("d", "a")>>) @@ Rule(T("d", "j"), <<T("d", "b")>>)),
                  Either(2, d2), Either(3, d3)>>,
                <<INodeset(4, Ids(ids), Attrs5)>>, <<>>) :
             ci \in Deps({T("c", "a")}), cj \in Deps({T("c", "b")}),
             d2 \in Deps(OwnI), d3 \in Deps(OwnI), ids \in {<<2, 3>>, <<3, 2>>}}

(* Equations that are wrong or missing, and a root that inherits. *)
Rules1 == {File(<<INode(1, TRUE, <<Child("c", 2)>>, attrs, eqs),
                  INode(2, FALSE, <<>>, <<Inherited("i"), Synthesized("a")>>, Rule(T(Self, "a"), da))>>, <<>>, <<>>) :
             attrs \in {<<>>, <<Inherited("h")>>, <<Classic("v"), Inherited("h")>>,
                        <<[Synthesized("s") EXCEPT !.constructor = TRUE]>>},
             eqs \in {NoEqs, Rule(T("c", "i"), <<>>), Rule(T("c", "a"), <<>>),
                      Rule(T("c", "i"), <<>>) @@ Rule(T(Self, "s"), <<T("c", "a")>>)},
             da \in Deps(OwnI \cup {T(Self, "z")})}

(* Nodes below each other in every way, a traversal of the last one. *)
Types5 == {2, 3, 4, 5}
Below5 == {<<>>} \cup {<<Child("c", t)>> : t \in Types5}
          \cup {<<Child("c", t), Child("d", u)>> : t, u \in Types5}
Cyclic == {File(<<INode(1, TRUE, k1, <<>>, NoEqs), INode(2, FALSE, k2, <<>>, NoEqs),
                  INode(3, FALSE, k3, <<>>, NoEqs), INode(4, FALSE, <<>>, <<>>, NoEqs)>>,
                <<INodeset(5, Ids(<<3, 2>>), <<>>), INodeset(6, Ids(<<1>>), <<>>)>>,
                <<Traversal(7, 0, Ids(<<4>>))>>) :
             k1 \in {<<Child("c", 5)>>, <<Child("c", 2), Child("d", 3)>>}, k2 \in Below5, k3 \in Below5}

MCGrammars == Cyclic \cup Setups \cup Misnamed \cup Alternating \cup Chains \cup Twins \cup Uneven \cup Rules1
=============================================================================
