------------------------------ MODULE FdManager ------------------------------
(***************************************************************************)
(* class FdManager and class FdCtx (fd_manager.h, fd_manager.cc): the      *)
(* container of descriptor contexts that the hooked system calls consult.  *)
(* A context says how the user made the descriptor (non-blocking or not,   *)
(* with or without timeouts), which is not how the kernel has it.          *)
(*                                                                         *)
(* m_datas is a vector: here a function from 0 .. size - 1.  Timeouts are  *)
(* there (TRUE) or -1 (FALSE).  m_sysNonblock is TRUE for every socket and *)
(* the only descriptors created are sockets; m_isClosed is never set.      *)
(***************************************************************************)
EXTENDS Naturals

CONSTANTS
    Event,          \* READ and WRITE
    NoCtx,          \* nullptr
    InitSize        \* the size the constructor gives the vector

VARIABLE m_datas

(* FdCtx::init() of a socket.                                              *)
NewFdCtx == [m_userNonblock |-> FALSE, timeout |-> [e \in Event |-> FALSE]]

FdCtx == [m_userNonblock : BOOLEAN, timeout : [Event -> BOOLEAN]]

FdManagerInit == m_datas = [i \in 0 .. InitSize - 1 |-> NoCtx]

FdManagerTypeOK ==
    /\ \E last \in DOMAIN m_datas : DOMAIN m_datas = 0 .. last
    /\ \A i \in DOMAIN m_datas : m_datas[i] \in FdCtx \cup {NoCtx}

(* get(fd): under the read lock.                                           *)
Found(fd) == fd \in DOMAIN m_datas /\ m_datas[fd] # NoCtx

(* get(fd, true) when it found none: under the write lock, taken after the *)
(* read lock was let go; the size is looked at again, the entry is not.    *)
Resized(fd) ==
    [i \in 0 .. (fd * 3) \div 2 - 1 |->
        IF i \in DOMAIN m_datas THEN m_datas[i] ELSE NoCtx]

(* Mutants of Grown: the size is not looked at again; holes in the vector. *)
GrownAlways(fd) == Resized(fd)
GrownHoles(fd)  == [i \in DOMAIN m_datas \cup {fd} |-> IF i \in DOMAIN m_datas THEN m_datas[i] ELSE NoCtx]

Grown(fd) == IF fd \in DOMAIN m_datas THEN m_datas ELSE Resized(fd)

create(fd) == m_datas' = [Grown(fd) EXCEPT ![fd] = NewFdCtx]

del(fd) ==
    IF fd \in DOMAIN m_datas THEN m_datas' = [m_datas EXCEPT ![fd] = NoCtx]
                             ELSE UNCHANGED m_datas

setUserNonblock(fd, v) == m_datas' = [m_datas EXCEPT ![fd].m_userNonblock = v]

setTimeout(fd, e, v) == m_datas' = [m_datas EXCEPT ![fd].timeout[e] = v]
=============================================================================
