------------------------------ MODULE MCBodyIo ------------------------------
(***************************************************************************)
(* Small instances of BodyIo.  MCBodyIo.cfg: bodies of up to three frames  *)
(* around the limit in every framing of HTTP/1, codings whose decoded size *)
(* is at or above it, and forms at and above each limit.  MCBodyBare.cfg:  *)
(* HTTP/2 requests without Content-Length.  MCBodyParts.cfg: a form of two *)
(* parts whose handler need not read a part to its end.  A handler makes   *)
(* up to three readers, of whatever parts it knows.                        *)
(***************************************************************************)
EXTENDS BodyIo

Request(ends, framing, route, coding, decoded, head) ==
  [ends |-> ends, framing |-> framing, route |-> route, coding |-> coding,
   decoded |-> decoded, head |-> head]

\* The limit is 2.
MCRequests ==
  {Request(f, h, r, "identity", 0, FALSE) :
     f \in {<<>>, <<2>>, <<1, 2>>, <<1, 2, 3>>}, h \in {"length", "chunked"},
     r \in {"stream", "schema"}}
  \union {Request(<<1>>, "length", r, c, d, FALSE) :
            r \in {"stream", "schema", "query"}, c \in {"gzip", "corrupt", "unknown"},
            d \in {2, 3}}
  \union {Request(<<>>, "length", "stream", "identity", 0, TRUE)}

BareRequests == {Request(<<1, 2>>, "bare", "stream", "identity", 0, FALSE)}

File(admitted, ends) == [file |-> TRUE, admitted |-> admitted, ends |-> ends]
Field(ends) == [file |-> FALSE, admitted |-> TRUE, ends |-> ends]
Form(parts) == [boundary |-> TRUE, parts |-> parts]

\* At most one file, of two bytes, and one field, of one.
MCForms ==
  {Form(<<>>), [boundary |-> FALSE, parts |-> <<>>],
   Form(<<File(TRUE, <<1, 2>>), Field(<<1>>)>>),
   Form(<<Field(<<1>>), File(FALSE, <<1>>)>>),
   Form(<<File(TRUE, <<1, 3>>), Field(<<1>>)>>),
   Form(<<File(TRUE, <<1>>), Field(<<1>>), File(TRUE, <<1>>)>>),
   Form(<<Field(<<1>>), Field(<<1>>)>>),
   Form(<<File(TRUE, <<>>), Field(<<1, 2>>)>>)}

TwoParts == {Form(<<File(TRUE, <<1, 2>>), Field(<<1>>)>>)}

\* The property of Multipart, for a run of its own.
EveryPartIsWhole == M!EveryPartIsWhole
=============================================================================
