------------------------------ MODULE CmdArgs ------------------------------
(***************************************************************************)
(* How a handler reads the arguments of its command (modules/cmd.c): a     *)
(* REQUEST walks the frame in protoRxBuf, one CMD_PopArgs after the other. *)
(* What handlers pop differs, and not all of them stop at argc             *)
(* (REST_Request with four arguments pops a fifth); here a handler pops as *)
(* often as it likes.                                                      *)
(*                                                                         *)
(* A cell of memory is an argument's length (2 bytes), a byte of data, or  *)
(* the checksum behind the last argument (2 bytes, any value).             *)
(***************************************************************************)
EXTENDS Naturals, SequencesExt

CONSTANTS
  Bytes,       \* values of a data byte
  Checksums,   \* values of the checksum
  MaxArgs,     \* bound: arguments of a command
  MaxLen,      \* bound: bytes of an argument
  MaxPops      \* bound: what one handler pops

ASSUME ArgsAssumption ==
  /\ Bytes \cup Checksums \subseteq Nat /\ {MaxArgs, MaxLen, MaxPops} \subseteq Nat

VARIABLES
  args,      \* the arguments the host has sent
  cells,     \* the frame from the first argument on
  arg_num,   \* REQUEST: arguments popped
  arg_ptr,   \* REQUEST: the next cell
  popped,    \* what the handler has got, pop by pop
  pops       \* pops so far, the ones that failed included

request == <<arg_num, arg_ptr>>
vars == <<args, cells, request, popped, pops>>

Cells(sent, checksum) ==
  FlattenSeq([i \in DOMAIN sent |-> <<Len(sent[i])>> \o sent[i]]) \o <<checksum>>

argc == Len(args)

\* CMD_Request: the REQUEST of a command just received.
Init ==
  /\ args \in BoundedSeq(BoundedSeq(Bytes, MaxLen), MaxArgs)
  /\ \E checksum \in Checksums : cells = Cells(args, checksum)
  /\ arg_num = 0 /\ arg_ptr = 1
  /\ popped = <<>>
  /\ pops = 0

\* Asked for by a handler before it pops a text; behind the last argument this
\* is the checksum.
CMD_ArgLen == cells[arg_ptr]

\* Fault: one argument too many is read.
MoreArgsOffByOne == arg_num <= argc

MoreArgs == arg_num < argc

\* Fault: the pointer moves on by the data alone.
AfterArgForgetsLength == arg_ptr + CMD_ArgLen

AfterArg == arg_ptr + 1 + CMD_ArgLen

\* -1 without an argument left: nothing is copied and the REQUEST stays.
CMD_PopArgs ==
  /\ pops < MaxPops
  /\ pops' = pops + 1
  /\ \/ /\ MoreArgs
        /\ popped' = Append(popped, [i \in 1..CMD_ArgLen |-> cells[arg_ptr + i]])
        /\ arg_ptr' = AfterArg
        /\ arg_num' = arg_num + 1
     \/ ~MoreArgs /\ UNCHANGED <<popped, request>>
  /\ UNCHANGED <<args, cells>>

Spec == Init /\ [][CMD_PopArgs]_vars

-----------------------------------------------------------------------------
(* Properties. *)

\* The REQUEST never leaves the frame: its pointer is at a length or at the
\* checksum.
TypeOK ==
  /\ arg_num \in 0..argc
  /\ arg_ptr \in 1..Len(cells)
  /\ popped \in Seq(Seq(Bytes))
  /\ pops \in 0..MaxPops

\* The pops return the arguments the host has sent, whole and in their order,
\* and nothing after the last one, however often a handler asks (CMD_PopArgs).
ReadsArguments == IsPrefix(popped, args) /\ Len(popped) = arg_num
=============================================================================
