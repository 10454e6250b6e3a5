----------------------------- MODULE MCPosixList -----------------------------
(***************************************************************************)
(* Three attributes of a Linux file: two in the user namespace and a       *)
(* security label the logical layer cannot address.  Their lengths let a   *)
(* list outgrow its buffer again in every attempt: past a SmallLen of 1,   *)
(* lists of 2, 3, 4 and 5 bytes.                                           *)
(***************************************************************************)
EXTENDS PosixList

MCNames   == {"user.a", "user.b", "security.label"}
MCLogical == {"user.a", "user.b"}
MCNameLen == "user.a" :> 1 @@ "user.b" :> 2 @@ "security.label" :> 2
MCSize(S) == FoldSet(LAMBDA n, total : MCNameLen[n] + total, 0, S)
MCRank    == "security.label" :> 1 @@ "user.a" :> 2 @@ "user.b" :> 3

\* Lists that are empty, fit, outgrow and shrink below one another.
Anything == {{}, {"user.a"}, {"user.b"}, {"user.a", "user.b"}, {"user.b", "security.label"}, Names, Gone}
=============================================================================
