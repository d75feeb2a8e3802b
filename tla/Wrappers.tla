------------------------------ MODULE Wrappers ------------------------------
(***************************************************************************)
(* The lind_* wrappers of lind_platform.c.  Nearly all of them are         *)
(*                                                                         *)
(*   ParseResponse(MakeLindSysCall(NUMBER, format, ...), num, dst, maxlen) *)
(*                                                                         *)
(* so a wrapper is a record, named after the C function, of                *)
(*                                                                         *)
(*   num   the number of outputs it announces to ParseResponse             *)
(*   max   the size it gives for the (first) output                        *)
(*   room  what the handler of lind_monitor.c that calls it has allocated  *)
(*         for that output                                                 *)
(*   sets  it builds Python objects of its own before the call             *)
(*   wild  the handler hands it a pointer of the program, or too few       *)
(*         arguments, and it reads through that in the monitor's memory    *)
(*                                                                         *)
(* Sizes are "struct" (a fixed structure), "size" (a length the program    *)
(* passes), "units" (that many structures) or "none".  Formats, numbers    *)
(* and input arguments are left out.  No handler calls lind_noop,          *)
(* lind_recv, lind_getpeername or lind_getifaddrs; their room is what      *)
(* their interface asks for.  lind_pread and lind_pwrite are sequences of  *)
(* other wrappers: module PositionedIO.                                    *)
(***************************************************************************)

SizeKinds == {"none", "struct", "size", "units"}

Plain == [num |-> 0, max |-> "none", room |-> "none",
          sets |-> FALSE, wild |-> FALSE]
Wild  == [Plain EXCEPT !.wild = TRUE]

(* One output, with the room its caller provides.                          *)
Fills(m, r) == [Plain EXCEPT !.num = 1, !.max = m, !.room = r]
FillsStruct == Fills("struct", "struct")
FillsSize   == Fills("size", "size")

-----------------------------------------------------------------------------
(* Files and identities.                                                   *)
lind_access   == Plain
lind_unlink   == Plain
lind_link     == Plain
lind_chdir    == Plain
lind_mkdir    == Plain
lind_rmdir    == Plain
lind_stat     == FillsStruct
lind_open     == Plain
lind_openat   == Plain
lind_close    == Plain
lind_read     == FillsSize
lind_write    == Plain
lind_lseek    == FillsStruct
lind_fstat    == FillsStruct
lind_fstatfs  == FillsStruct
lind_statfs   == FillsStruct
lind_noop     == Plain
lind_getpid   == Plain
lind_dup      == Plain
lind_dup2     == Plain
lind_dup3     == Plain
lind_getdents == FillsSize
lind_flock    == Plain
lind_fcntl    == Wild
lind_getuid   == Plain
lind_geteuid  == Plain
lind_getgid   == Plain
lind_getegid  == Plain

(* Sockets and events.                                                     *)
lind_socket      == Plain
lind_bind        == Plain
lind_send        == Plain
lind_recv        == FillsSize
lind_connect     == Plain
lind_listen      == Plain
lind_sendto      == Wild
lind_accept      == Wild
lind_getpeername == FillsSize
\* room for a lind_sockaddr, filled up to the length the program passes
lind_getsockname == Fills("size", "struct")
lind_getsockopt  == [Fills("size", "struct") EXCEPT !.wild = TRUE]
lind_setsockopt  == Plain
lind_shutdown    == Plain
lind_select      == [FillsStruct EXCEPT !.sets = TRUE]
lind_getifaddrs  == FillsSize
\* *addrlen, buf and src_addr
lind_recvfrom    == [FillsStruct EXCEPT !.num = 3]
\* room for one lind_pollfd, filled up to nfds of them
lind_poll        == Fills("units", "struct")
lind_socketpair  == FillsStruct
lind_epoll_create  == Plain
lind_epoll_create1 == Plain
lind_epoll_ctl     == Plain
lind_epoll_wait    == FillsStruct

Rows == {
  lind_access, lind_unlink, lind_link, lind_chdir, lind_mkdir, lind_rmdir,
  lind_stat, lind_open, lind_openat, lind_close, lind_read, lind_write,
  lind_lseek, lind_fstat, lind_fstatfs, lind_statfs, lind_noop, lind_getpid,
  lind_dup, lind_dup2, lind_dup3, lind_getdents, lind_flock, lind_fcntl,
  lind_getuid, lind_geteuid, lind_getgid, lind_getegid, lind_socket, lind_bind,
  lind_send, lind_recv, lind_connect, lind_listen, lind_sendto, lind_accept,
  lind_getpeername, lind_getsockname, lind_getsockopt, lind_setsockopt,
  lind_shutdown, lind_select, lind_getifaddrs, lind_recvfrom, lind_poll,
  lind_socketpair, lind_epoll_create, lind_epoll_create1, lind_epoll_ctl,
  lind_epoll_wait }
=============================================================================
