------------------------------ MODULE MCVirtio ------------------------------
(* Virtio with processes and buffers that are numbers. *)
EXTENDS Virtio

\* Every process has a buffer of its own.
OwnBufs == [p \in Procs |-> {p}]

\* Every process may use every buffer, as the buffer cache lets it.
SharedBufs == [p \in Procs |-> Bufs]
=============================================================================
