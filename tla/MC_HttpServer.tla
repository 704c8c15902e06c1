---------------------------- MODULE MC_HttpServer ----------------------------
(* Well-formed requests with and without headers, query and body, a bad      *)
(* request line and a header without a colon.                                *)
EXTENDS HttpServer

MCShapes ==
    [line : {"good"}, fields : {<<>>, <<"field">>}, query : BOOLEAN, body : {0, 2}]
    \cup [line : {"bad"}, fields : {<<>>}, query : {FALSE}, body : {0}]
    \cup [line : {"good"}, fields : {<<"colonless">>}, query : {FALSE}, body : {1}]
=============================================================================
