---------------------------- MODULE MCProtocols ----------------------------
(* Instance of Protocols for TLC. *)
EXTENDS Protocols, TLC

\* Requests, groups and suffixes are interchangeable.
ProtocolsSymmetry ==
    {p @@ q @@ r : p \in Permutations(Client), q \in Permutations(Group),
                   r \in Permutations(Suffix)}

============================================================================
