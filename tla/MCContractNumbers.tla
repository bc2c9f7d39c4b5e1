-------------------------- MODULE MCContractNumbers --------------------------
(* One method whose request and response change, one that comes and goes. *)
EXTENDS ContractNumbers, TLC

CONSTANTS add, sub, int, text, p1, p2

TwoMethods == {add, sub}
TwoNames == {1, 2}
TwoTypes == {int, text}
TwoPublications == {p1, p2}

Shape(a, b) == (1 :> a) @@ (2 :> b)
Nothing == Shape(NoType, NoType)

Interface(request, response, other) ==
    [methods |-> (IF response = Nothing THEN {} ELSE {add}) \cup (IF other = Nothing THEN {} ELSE {sub}),
     fields |-> (<<add, "request">> :> request) @@ (<<add, "response">> :> response) @@
                (<<sub, "request">> :> Nothing) @@ (<<sub, "response">> :> other)]

SmallInterfaces ==
    {Interface(Shape(int, NoType), Shape(int, NoType), Nothing),
     Interface(Shape(int, NoType), Shape(int, int), Nothing),   \* a field more in the response
     Interface(Shape(int, NoType), Shape(int, text), Nothing),  \* of another type
     Interface(Shape(NoType, int), Shape(int, NoType), Nothing),  \* another field in the request
     Interface(Shape(int, NoType), Shape(int, NoType), Shape(int, NoType)),  \* a method more
     Interface(Nothing, Nothing, Shape(int, NoType))}           \* a method less

Symmetry == Permutations(TwoPublications)
=============================================================================
