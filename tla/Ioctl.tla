------------------------------- MODULE Ioctl -------------------------------
(***************************************************************************)
(* What a call of libnvme returns, and the Result the crate makes of it    *)
(* (error.rs).  Every command of the crate ends in check_ret.              *)
(***************************************************************************)
EXTENDS Integers

Errno == 110  \* ETIMEDOUT stands for every errno

(* Status codes a command completes with (0 is success); the positive ones *)
(* reach the caller as Error::Nvme.                                        *)
Success      == 0
InvalidField == 2

InvalidArgument == [kind |-> "InvalidArgument", code |-> 0]
OsError         == [kind |-> "Os", code |-> Errno]

(* Mutant: a status code of the controller passes for success.             *)
check_ret_DropsStatus(ret) ==
  IF ret >= 0 THEN [kind |-> "Ok", code |-> 0] ELSE [kind |-> "Os", code |-> Errno]

check_ret(ret) ==
  CASE ret = 0  -> [kind |-> "Ok", code |-> 0]
    [] ret = -1 -> [kind |-> "Os", code |-> Errno]
    [] ret < -1 -> [kind |-> "Os", code |-> -ret]
    [] OTHER    -> [kind |-> "Nvme", code |-> ret]

Reply == [kind : {"Ok", "Os", "Nvme", "InvalidArgument"}, code : Int]
=============================================================================
