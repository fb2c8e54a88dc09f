------------------------------- MODULE MCHttp -------------------------------
EXTENDS Http

A1 == [host |-> "a", port |-> 1]
A2 == [host |-> "a", port |-> 2]
B1 == [host |-> "b", port |-> 1]
Url(site, user, ims) == [site |-> site, user |-> user, ims |-> ims]
MCUrls == {Url(A1, "u", TRUE)}
PlainUrls == {Url(A1, "", FALSE), Url(A2, "", FALSE), Url(B1, "", FALSE)}

None == Elsewhere("none")
Path == Elsewhere("path")
Reply(code, conn, frame, body, loc) ==
    [code |-> code, conn |-> conn, frame |-> frame, body |-> body, loc |-> loc]

(* Bodies of every framing, kept alive or not; redirects that stay, leave, *)
(* go nowhere; a challenge; not modified; an error.                        *)
MCReplies ==
    {Reply(200, "keep", "length", <<1>>, None), Reply(200, "keep", "chunked", <<2, 1>>, None),
     Reply(200, "close", "close", <<1>>, None), Reply(304, "keep", "length", <<1>>, None),
     Reply(301, "none", "length", <<>>, Path), Reply(302, "keep", "length", <<>>, B1),
     Reply(303, "close", "length", <<>>, Elsewhere("relative")),
     Reply(401, "close", "length", <<>>, None), Reply(404, "close", "length", <<>>, None)}

(* Two framings and no trouble: what the cache does at its limits.         *)
PlainReplies ==
    {Reply(200, "keep", "length", <<1>>, None), Reply(404, "close", "length", <<>>, None)}
=============================================================================
