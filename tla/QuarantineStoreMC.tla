-------------------------- MODULE QuarantineStoreMC --------------------------
(* Instances of QuarantineStore for TLC: the sets of faults the runs allow. *)
EXTENDS QuarantineStore

NoFaults  == {}
AllFaults == Calls

\* One kind of failure each: the temporary record cannot be written; it is cut
\* short when its buffer is flushed; the record cannot be opened (another process
\* has it); a stored file is in use.
RecordUnwritable == {"write_record"}
RecordCutShort   == {"flush_record"}
RecordUnreadable == {"read_record"}
FileHeld         == {"remove"}
=============================================================================
