------------------------------ MODULE MCDtpSocket ------------------------------
(* DtpSocket for TLC: DtpChannel identities, and threads in the same role, are interchangeable. *)
EXTENDS DtpSocket, TLC

HandleSymmetry == Permutations(Handles)
DialerSymmetry == Permutations(Handles) \cup Permutations(Threads)

================================================================================
