------------------------------- MODULE CliExit -------------------------------
(***************************************************************************)
(* How the commands of src/rust/src/main.rs turn the status of a failed    *)
(* call into an exit status.  Statuses keep their names; their codes in    *)
(* src/rust/src/lib.rs only serve to pass them through C.                  *)
(***************************************************************************)
EXTENDS Naturals

Status == {"OK", "Missing", "Unsupported", "ReadOnly", "Permission", "TooLarge",
           "NotFound", "InvalidName", "InvalidPath", "Changed", "BufferTooSmall",
           "OutOfMemory", "Io", "InvalidArgument"}

ExitError == 1
ExitUsage == 2

ExitFor(status) ==
  CASE status = "OK" -> 0
    [] status = "Unsupported" -> 3
    [] status = "Missing" -> 4
    [] status \in {"Permission", "ReadOnly"} -> 5
    [] status = "TooLarge" -> 6
    [] status = "NotFound" -> 7
    [] status \in {"InvalidName", "InvalidPath"} -> 8
    [] OTHER -> ExitError
=============================================================================
