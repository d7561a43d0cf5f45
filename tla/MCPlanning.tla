---------------------------- MODULE MCPlanning ----------------------------
(***************************************************************************)
(* Two requests for one document: the first gets every list of at most     *)
(* MaxItems items, with titles that repeat, number themselves or are       *)
(* blank and paths that are equal, spelled in two ways or beneath each     *)
(* other; the second gets one item, or no reply that can be read.          *)
(***************************************************************************)
EXTENDS Planning

CONSTANTS p1, p2, MaxItems

MCRequest ==
  (p1 :> [title |-> << "limits" >>, owners |-> << "h1", "h2" >>, maxSubtasks |-> 3, shared |-> TRUE])
  @@ (p2 :> [title |-> << "?" >>, owners |-> << "h2" >>, maxSubtasks |-> 2, shared |-> TRUE])

Items ==
  [title : {<<>>, << "api" >>, << "api", "2" >>}, description : {<<>>},
   paths : {{}, {<< "src", "a" >>}, {<< "src", ".", "b", "..", "a" >>, << ".." >>},
            {<< "src", "a" >>, << "src", "b" >>}, {<< "src" >>}}]

OneItem == [title |-> << "api" >>, description |-> << "rename" >>, paths |-> {<< "src", "a" >>}]

MCReplies == (p1 :> UNION {[1 .. n -> Items] : n \in 0 .. MaxItems}) @@ (p2 :> {<< OneItem >>})

=============================================================================
