------------------------------ MODULE MCServer ------------------------------
(***************************************************************************)
(* Small instances of Server for TLC: what senders send.                   *)
(***************************************************************************)
EXTENDS ServerInv

CONSTANTS s1, r1, r2   \* clients

Item(kind, fault) == [kind |-> kind, fault |-> fault]

Over(via, items) ==
    [via |-> via, method |-> "POST", encoding |-> "gzip", unpacks |-> TRUE,
     type |-> "application/json", decodes |-> TRUE, items |-> items]

TwoItems == <<Item("span", "none"), Item("log", "none")>>
OddItem == <<Item("log", "none"), Item("log", "unknown type")>>

\* Well-formed ones over both transports, one that cannot be converted, and
\* one that cannot be written to a page.
Posts ==
    {Over("http", TwoItems), Over("grpc", TwoItems), Over("http", OddItem), Over("grpc", OddItem),
     Over("http", <<Item("log", "not UTF-8")>>)}

\* A span that cannot be written to a page, a log, and one that cannot be
\* converted.
BadPost ==
    {Over("http", <<Item("span", "not UTF-8"), Item("log", "none"), Item("log", "unknown type")>>)}

\* Posts, and one for each way to be refused.
AllPosts ==
    LET good == Over("http", <<Item("log", "none")>>)
    IN  Posts \cup
        {[good EXCEPT !.method = "PUT"], [good EXCEPT !.encoding = "br"],
         [good EXCEPT !.unpacks = FALSE], [good EXCEPT !.type = "text/plain"],
         [good EXCEPT !.decodes = FALSE]}
=============================================================================
