------------------------------- MODULE MCMdns -------------------------------
(* Small instances of the mDNS responder for TLC.  Names are short, with   *)
(* the nesting of the real ones; a type's data holds a name where it does. *)
EXTENDS MdnsResponder

\* "a.l.", "b.a.l." and "h.l."
Service == <<97, 46, 108, 46>>
Instance == <<98, 46, 97, 46, 108, 46>>
Host == <<104, 46, 108, 46>>

Bytes == (typeA :> 4) @@ (typePTR :> Len(Instance) + 1) @@ (typeTXT :> 3)
            @@ (typeSRV :> 6 + Len(Host) + 1)

Header(flags, count) == <<0, 0, flags, 0, 0, count, 0, 0, 0, 0, 0, 0>>

\* Bodies of up to three octets, ends, labels and pointers, after a label or not.
Body == {l \o b : l \in {<<>>, <<1, 97>>}, b \in BoundedSeq({0, 1, 12, 192}, 3)}

\* Questions of one or two names, the second compressed to what it shares.
Question(r) == encodeName(r.name) \o <<0, r.type, 0, 1>>

Queries ==
    {Ask(r, r.name) : r \in Records} \cup {Ask(r, Shouted(r.name)) : r \in Records}
    \cup {Header(0, 2) \o Question(r) \o Question(s) : r, s \in Records}
    \cup {Header(0, 2) \o Question(ptr) \o <<1, 98, 192, 12, 0, t, 0, 1>> : t \in {16, 33}}
    \cup {Header(f, 1) \o Question(ptr) : f \in {8, 128}}
    \cup {Header(0, 3) \o Question(ptr), Header(0, 0), <<0>>,
          Header(0, 1) \o encodeName(Service) \o <<0, 12, 128, 1>>,
          Header(0, 1) \o encodeName(Service) \o <<0, 12, 0, 3>>,
          Header(0, 1) \o <<64, 0>>}

Fuzz == {Header(0, 1) \o b : b \in Body}

Datagrams == Queries \cup Fuzz
=============================================================================
