------------------------------ MODULE IrqTrace ------------------------------
(***************************************************************************)
(* The RAM flight recorder of the interrupt-driven USART driver            *)
(* (drivers/serial/uart_wch_irq_trace.h), as functions of one port's       *)
(* record.  Timestamps are raw SysTick counts, which wrap at Period; a     *)
(* status word is the set of its flags.                                    *)
(***************************************************************************)
EXTENDS Integers, Sequences

CONSTANTS Period,          \* period_ticks: the counter's wrap
          Entries,         \* WCH_TRACE_EVENTS: size of the event ring
          SlowTicks,       \* slow_ticks: a callback this long is slow
          SampleInterval,  \* one callback in this many is timed
          CharTicks        \* char_ticks: the time of one character

ASSUME TraceConstants ==
  /\ Period \in Nat \ {0} /\ Entries \in Nat \ {0} /\ SampleInterval \in Nat \ {0}
  /\ SlowTicks \in Nat /\ CharTicks \in Nat

Errors == {"PE", "FE", "NE", "ORE", "LBD"}   \* WCH_TRACE_ERROR_MASK

Unknown == -1   \* UINT32_MAX: the callback is not timed

ZeroTrace ==
  [irq_count |-> 0, rx_bytes |-> 0, tx_bytes |-> 0,
   api_error_or |-> {}, fifo_error_or |-> {}, api_error_reads |-> 0,
   fifo_error_reads |-> 0, max_isr_ticks |-> 0, slow_isrs |-> 0,
   max_rx_service_ticks |-> 0, rx_service_over_char |-> 0,
   entry_tick |-> 0, last_status |-> {}, events_written |-> 0, frozen |-> FALSE,
   first_error |-> <<>>, timing_samples |-> 0, sample_countdown |-> 0,
   events |-> [i \in 0..Entries - 1 |-> <<>>]]

Larger(a, b) == IF a > b THEN a ELSE b

\* Mutation: the counter's last value is taken for its period.
delta_ShortPeriod(now, before) ==
  IF now >= before THEN now - before ELSE Period - 1 - before + now

wch_trace_delta(now, before) ==
  IF now >= before THEN now - before ELSE Period - before + now

wch_trace_event(t, kind, status, tick, duration) ==
  LET e == [kind |-> kind, status |-> status, tick |-> tick, irq |-> t.irq_count,
            rx |-> t.rx_bytes, tx |-> t.tx_bytes, duration |-> duration,
            detail |-> t.max_rx_service_ticks]
  IN IF t.frozen THEN t
     ELSE [t EXCEPT !.events[t.events_written % Entries] = e, !.events_written = @ + 1]

\* The first error is recorded, logged, and freezes the ring.
FirstError(t, status, site, tick) ==
  LET noted == [t EXCEPT !.first_error =
                  [site |-> site, status |-> status, tick |-> tick,
                   rx |-> t.rx_bytes, tx |-> t.tx_bytes]]
      since == IF t.entry_tick = Unknown THEN Unknown
               ELSE wch_trace_delta(tick, t.entry_tick)
  IN IF t.frozen THEN t
     ELSE [wch_trace_event(noted, site, status, tick, since) EXCEPT !.frozen = TRUE]

wch_trace_status(t, status, site, tick) ==
  LET errors == status \cap Errors
      last == [t EXCEPT !.last_status = IF t.entry_tick # Unknown THEN status ELSE @]
      api == [last EXCEPT !.api_error_or = @ \cup errors, !.api_error_reads = @ + 1]
      fifo == [last EXCEPT !.fifo_error_or = @ \cup errors, !.fifo_error_reads = @ + 1]
  IN IF errors = {} THEN last
     ELSE FirstError(IF site = 3 THEN api ELSE fifo, status, site, tick)

wch_trace_enter(t, tick) ==
  LET n == t.sample_countdown IN
  [t EXCEPT !.irq_count = @ + 1,
            !.sample_countdown = IF n = 0 THEN SampleInterval - 1 ELSE n - 1,
            !.timing_samples = IF n = 0 THEN @ + 1 ELSE @,
            !.entry_tick = IF n = 0 THEN tick ELSE Unknown]

\* Mutation: the status that preceded the data is not logged.
TraceRead_NoStatus(t, status, tick) == [t EXCEPT !.rx_bytes = @ + 1]

\* The bookkeeping of fifo_read after it has read DATAR.
TraceRead(t, status, tick) ==
  LET timed == t.entry_tick # Unknown
      service == wch_trace_delta(tick, t.entry_tick)
      read == [t EXCEPT
        !.rx_bytes = @ + 1,
        !.max_rx_service_ticks = IF timed THEN Larger(@, service) ELSE @,
        !.rx_service_over_char = IF timed /\ service >= CharTicks THEN @ + 1 ELSE @]
  IN wch_trace_status(read, status, 4, tick)

wch_trace_exit(t, tick) ==
  LET duration == wch_trace_delta(tick, t.entry_tick)
      longest == [t EXCEPT !.max_isr_ticks = Larger(@, duration)]
  IN IF t.entry_tick = Unknown THEN t
     ELSE IF duration >= SlowTicks
     THEN wch_trace_event([longest EXCEPT !.slow_isrs = @ + 1], 2, t.last_status, tick, duration)
     ELSE IF SampleInterval > 1 \/ t.irq_count % 128 = 0
     THEN wch_trace_event(longest, 1, t.last_status, tick, duration)
     ELSE longest
=============================================================================
