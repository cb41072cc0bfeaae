---------------------------- MODULE MCHostStream ----------------------------
(* HostStream with short streams of every kind of byte.                    *)
EXTENDS HostStream

MCCodes == {"ESC", "[", "(", "a", "LF", "CR", "EOT", "lead", "tail"}

\* A queue that a chunk overflows at once and one that two chunks overflow.
MCQueueSizes == {1, 3}

\* The empty file, and a last byte that is not the first.
MCUploadSizes == {0, 2}
=============================================================================
