--------------------------- MODULE MCSocksSession ---------------------------
(* An instance of SocksSession for TLC. *)
EXTENDS SocksSession

MCRequest(vn, cd, addr, name) == [vn |-> vn, cd |-> cd, addr |-> addr, name |-> name]

(***************************************************************************)
(* CONNECT to addresses the rules permit, refuse and do not mention, by a  *)
(* name that resolves and one that does not, BIND, and what run turns away.*)
(***************************************************************************)
MCRequests ==
    {MCRequest(4, CONNECT, <<140, 113>>, ""), MCRequest(4, CONNECT, <<140, 114>>, ""),
     MCRequest(4, CONNECT, <<0, 1>>, "host"), MCRequest(4, CONNECT, <<0, 1>>, "nohost"),
     MCRequest(4, BIND, <<140, 114>>, ""), MCRequest(5, CONNECT, <<140, 113>>, ""),
     MCRequest(4, 3, <<8, 8>>, "")}

MCResolve == [n \in {"host"} |-> <<140, 113>>]

(* The wildcard of a mask is -1. *)
MCRules ==
    <<[action |-> "permit", mode |-> "c", mask |-> <<140, 113>>],
      [action |-> "deny", mode |-> "c", mask |-> <<140, 114>>],
      [action |-> "permit", mode |-> "b", mask |-> <<-1, -1>>],
      [action |-> "permit", mode |-> "x", mask |-> <<8, 8>>]>>
=============================================================================
