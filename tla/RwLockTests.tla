----------------------------- MODULE RwLockTests ----------------------------
(***************************************************************************)
(* The tests of src/lock/rwlock.rs as scripts for the model of RwLock, in  *)
(* the form of MutexTests.  read and read_rc are the same call here, and   *)
(* so are write and write_rc.                                              *)
(***************************************************************************)
EXTENDS RwLock

reads(c) == <<"reads", c>>
writes(c) == <<"writes", c>>
read_pending(c) == <<"read_pending", c>>
write_pending(c) == <<"write_pending", c>>
drop(c) == <<"drop", c>>
woken_again(c) == <<"woken", c>>
not_woken(c) == <<"not_woken", c>>

Do(step) ==
    \/ step[1] = "reads" /\ (PollRead(step[2]) \/ PollNotified(step[2]))
                         /\ step[2] \in In("reading")'
    \/ step[1] = "writes" /\ (PollWrite(step[2]) \/ PollNotified(step[2]))
                          /\ step[2] \in In("writing")'
    \/ step[1] = "read_pending" /\ (PollRead(step[2]) \/ PollNotified(step[2]))
                                /\ step[2] \in In("wait_read")'
    \/ step[1] = "write_pending" /\ (PollWrite(step[2]) \/ PollNotified(step[2]))
                                 /\ step[2] \in In("wait_write")'
    \/ step[1] = "drop" /\ (DropReadGuard(step[2]) \/ DropWriteGuard(step[2])
                              \/ DropFuture(step[2]))
    \/ step[1] = "woken" /\ step[2] \in woken /\ UNCHANGED vars
    \/ step[1] = "not_woken" /\ step[2] \notin woken /\ UNCHANGED vars
-----------------------------------------------------------------------------
read_and_write_succeed_without_contention ==
    <<reads("read"), drop("read"), writes("write"), drop("write"), reads("read")>>

read_waits_for_active_writer_to_drop ==
    <<writes("writer"), read_pending("reader"), not_woken("reader"), drop("writer"),
      woken_again("reader"), reads("reader")>>

write_waits_for_active_reader_to_drop ==
    <<reads("reader"), write_pending("writer"), not_woken("writer"), drop("reader"),
      woken_again("writer"), writes("writer"), drop("writer"), reads("reader")>>

lock_method_returns_guard_that_can_mutate_value ==
    <<writes("guard"), drop("guard"), reads("reader")>>

lock_future_waits_until_reader_releases ==
    <<reads("reader"), write_pending("lock_future"), not_woken("lock_future"),
      drop("reader"), woken_again("lock_future"), writes("lock_future"),
      drop("lock_future"), reads("reader")>>

lock_guard_blocks_writer_until_dropped ==
    <<writes("guard"), write_pending("writer"), not_woken("writer"), drop("guard"),
      woken_again("writer"), writes("writer"), drop("writer"), reads("reader")>>

multiple_readers_can_hold_the_lock_at_once == <<reads("a"), reads("b"), reads("c")>>

writer_waits_for_every_reader ==
    <<reads("first"), reads("second"), write_pending("writer"), drop("first"),
      write_pending("writer"), drop("second"), writes("writer")>>

readers_are_blocked_while_a_writer_holds_the_lock ==
    <<writes("writer"), read_pending("reader"), read_pending("rc_reader"),
      drop("writer"), reads("reader")>>

second_writer_waits_for_the_first ==
    <<writes("writer"), write_pending("second"), write_pending("second_rc"),
      drop("writer"), writes("second")>>

writes_are_visible_to_later_readers ==
    <<writes("guard"), drop("guard"), writes("guard"), drop("guard"),
      reads("reader"), drop("reader"), reads("reader")>>

rc_reader_blocks_writers_until_dropped ==
    <<reads("reader"), write_pending("writer"), drop("reader"), writes("writer")>>

rc_readers_can_be_held_concurrently == <<reads("first"), reads("second"), drop("first")>>

rc_and_borrowed_readers_can_be_held_concurrently ==
    <<reads("borrowed"), reads("rc"), drop("borrowed")>>

dropping_pending_futures_releases_nothing_and_blocks_nobody ==
    <<writes("writer"), read_pending("reader"), write_pending("other_writer"),
      drop("other_writer"), drop("reader"), drop("writer"), writes("other_writer")>>

waiting_reader_is_woken_when_writer_releases ==
    <<writes("writer"), read_pending("reader"), drop("writer"), woken_again("reader"),
      reads("reader")>>

Tests ==
    {read_and_write_succeed_without_contention,
     read_waits_for_active_writer_to_drop,
     write_waits_for_active_reader_to_drop,
     lock_method_returns_guard_that_can_mutate_value,
     lock_future_waits_until_reader_releases,
     lock_guard_blocks_writer_until_dropped,
     multiple_readers_can_hold_the_lock_at_once,
     writer_waits_for_every_reader,
     readers_are_blocked_while_a_writer_holds_the_lock,
     second_writer_waits_for_the_first,
     writes_are_visible_to_later_readers,
     rc_reader_blocks_writers_until_dropped,
     rc_readers_can_be_held_concurrently,
     rc_and_borrowed_readers_can_be_held_concurrently,
     dropping_pending_futures_releases_nothing_and_blocks_nobody,
     waiting_reader_is_woken_when_writer_releases}
=============================================================================
