-------------------------- MODULE MCRequestHandler --------------------------
(* Instance of RequestHandler for TLC: uris made of the pieces that url_decode *)
(* and handle_request tell apart.                                              *)
EXTENDS RequestHandler

\* /   .   a   +   %2e   %2F   %25   %2g   %-1   %00   %   2   .gif
Pieces ==
  { <<47>>, <<46>>, <<97>>, <<43>>, <<37, 50, 101>>, <<37, 50, 70>>, <<37, 50, 53>>,
    <<37, 50, 103>>, <<37, 45, 49>>, <<37, 48, 48>>, <<37>>, <<50>>, <<46, 103, 105, 102>> }

\* Up to four pieces.
ManyUris == {FlattenSeq(s) : s \in BoundedSeq(Pieces, 4)}
=============================================================================
