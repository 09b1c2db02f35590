---------------------------- MODULE MCHttpServer ----------------------------
(* HttpServer instantiated for TLC: the constants are given in the .cfg files. *)
EXTENDS HttpServer

\* A request in two packets, and one the parser rejects.
MCShapesTwo == {<<"part", "last">>, <<"bad">>}
\* A request in two packets.
MCShapesSplit == {<<"part", "last">>}
====
