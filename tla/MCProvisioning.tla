--------------------------- MODULE MCProvisioning ---------------------------
(* Provisioning with a local server, which may take itself for the public one, *)
(* and a public one; two attempts of up to three channels, two editors.         *)
EXTENDS Provisioning

Public == <<"hostc", "dev">>
Host(words) == [i \in DOMAIN words |-> Label(words[i])]
LocalServer == Host(<<"localhost">>)
PublicServer == Host(Public)
Seen == (LocalServer :> {LocalServer, PublicServer}) @@ (PublicServer :> {PublicServer})
TwoTunnels == <<"t-a", "t-b">>
StoredValues == {Unset, 1, 3, 9}
EditedValues == {Unset, Keep, 1, 9}
BothVersions == {3, 4}
FlagValues == {Unset, 2, 9}

\* Bound: either editors run or the client starts. The client reads the file once, and
\* StoredValues has everything that editors may leave in it.
Apart == At("idle") \/ \A e \in Editors : editor[e].phase = "idle"
ApartSpec == Init /\ [][Next /\ Apart']_vars /\ Fairness
=============================================================================
