----------------------------- MODULE MCGunrock ------------------------------
(***************************************************************************)
(* Instance of Gunrock for TLC.                                            *)
(***************************************************************************)
EXTENDS Gunrock

CONSTANTS ds3, a, b

MCTokens == {ds3, a, b}

Sends(method, path, fields, body, behind) ==
  [method |-> method, path |-> path, fields |-> fields, body |-> body, behind |-> behind]

SomeFields == << [name |-> <<a, b>>, value |-> <<a, b>>], [name |-> <<b>>, value |-> <<>>],
                [name |-> <<b, b>>, value |-> <<a>>] >>

\* Fields of several tokens, an empty value in the middle and at the end, bodies, no fields, a method the
\* server does not know, a message behind another, and a CONNECT.
MCRequests == {
  Sends("PUT", <<ds3, a>>, SomeFields, <<a, b, a>>, FALSE),
  Sends("PUT", <<a, ds3>>, SomeFields, <<a>>, FALSE),
  Sends("DELETE", <<ds3, a>>, Tail(SomeFields), <<>>, TRUE),
  Sends("GET", <<a, b>>, SomeFields, <<>>, FALSE),
  Sends("GET", <<ds3>>, SubSeq(SomeFields, 1, 2), <<>>, FALSE),
  Sends("HEAD", <<a>>, <<>>, <<>>, FALSE),
  Sends("COPY", <<a>>, SomeFields, <<>>, FALSE),
  Sends("CONNECT", <<>>, Tail(SomeFields), <<>>, FALSE) }
=============================================================================
