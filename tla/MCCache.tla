------------------------------ MODULE MCCache -------------------------------
(***************************************************************************)
(* Small instances of Cache: a GET and its auto-HEAD, the same GET for     *)
(* another vary value and for another path, and QUERYs with two bodies.    *)
(***************************************************************************)
EXTENDS Cache, TLC

Shape(method, path, vary, raw, enc) ==
  [method |-> method, path |-> path, vary |-> vary, raw |-> raw, enc |-> enc]

Gets == {Shape("GET", "/a", "x", "empty", "identity"),
         Shape("HEAD", "/a", "x", "empty", "identity"),
         Shape("GET", "/a", "y", "empty", "identity"),
         Shape("GET", "/b", "x", "empty", "identity")}

Queries == {Shape("QUERY", "/a", "x", "plain", "identity"),
            Shape("QUERY", "/a", "x", "packed", "gzip"),
            Shape("QUERY", "/a", "x", "packed", "identity")}

MCShapes == Gets \union Queries

Symmetry == Permutations(Task)
=============================================================================
