--------------------------- MODULE MCOffsiteBackup ---------------------------
(* Instances of OffsiteBackup, with Migration, for TLC. *)
EXTENDS OffsiteBackup, TLC

CONSTANTS t1, c1

OldRow(status, object, token) ==
  [status |-> status, object |-> object, token |-> token, client |-> NoClient]

OldDatabase(version, row) ==
  [version |-> version, task |-> t1 :> row, preset |-> version >= 3]

\* Every version, every kind of row that a step treats in a way of its own, and
\* a row that version 4 has no place for.
MCFound ==
  {OldDatabase(0, NoRow), OldDatabase(4, NoRow)}
  \union {OldDatabase(1, row) : row \in {OldRow("succeeded", "none", FALSE),
                                        OldRow("unknown", "none", FALSE)}}
  \union {OldDatabase(2, OldRow("succeeded", "deleting", TRUE))}
  \union {OldDatabase(3, row) : row \in {OldRow("succeeded", "present", FALSE),
                                        OldRow("uploading", "present", TRUE),
                                        OldRow("failed", "pending", TRUE),
                                        OldRow("succeeded", "pending", TRUE),
                                        OldRow("succeeded", "absent", FALSE)}}
  \union {OldDatabase(4, OldRow("succeeded", "delete_unknown", TRUE))}

MCWritten ==
  {[status |-> "succeeded", object |-> "present", token |-> TRUE, client |-> c1]}
==============================================================================
