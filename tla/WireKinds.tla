------------------------------ MODULE WireKinds ------------------------------
(* How one member of a message travels: the overloads of parse_req and       *)
(* pack_resp (net-memory-io-base.h) and of ms_endian, one kind for each form. *)
(* class  what is done with the member                                       *)
(* size   its bytes, or the longest text or array the reader takes           *)
(* of     the kinds of an element of a group                                 *)
(* lax    the reader goes on when the member is missing                      *)
EXTENDS Integers, Sequences

Kind(class, size, of) == [class |-> class, size |-> size, of |-> of, lax |-> FALSE]

\* an integer: ms_endian turns its bytes round; a float keeps them
U1 == Kind("int", 1, <<>>)
U2 == Kind("int", 2, <<>>)
U4 == Kind("int", 4, <<>>)
U8 == Kind("int", 8, <<>>)
F4 == Kind("flat", 4, <<>>)

\* an array of bytes of a fixed size, copied as it is
Raw(n) == Kind("flat", n, <<>>)

\* std::string: its length, then its bytes; Txt is sent with a closing NUL
\* and cut at it by its reader
Str == Kind("string", 0, <<>>)
Txt == Kind("text", 0, <<>>)

\* a length, then as many bytes of an array that holds max
Buf(max) == Kind("buffer", max, <<>>)

\* a count, then the elements: of an array of max, of a list, of a map or set
Arr(max, of) == Kind("array", max, of)
List(of) == Kind("list", 0, of)
Bag(of) == [Kind("list", 0, [i \in DOMAIN of |-> [of[i] EXCEPT !.lax = TRUE]]) EXCEPT !.lax = TRUE]

\* bytes without a length: all that is left of the packet, as much as an array
\* of max holds, or whatever it is; or all up to a NUL
Rest(max) == Kind("rest", max, <<>>)
Whole(max) == Kind("whole", max, <<>>)
CStr(max) == Kind("cstr", max, <<>>)

\* members turned round twice, with htons or htonl and again when packed
Twice(n) == Kind("flat", n, <<>>)
TwiceBuf(max) == Kind("twice", max, <<>>)
TwiceArr(max, of) == Kind("twice", max, of)
=============================================================================
