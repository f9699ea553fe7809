----------------------------- MODULE MCSerial1 -----------------------------
(* Model checking Serial1, and the refinement to SerialPipes. *)
EXTENDS Serial1

Pipes == INSTANCE SerialPipes WITH
           UartSize <- 2,
           Room     <- SERIAL1_RX_BUFFER_SIZE - 1,
           given    <- c,
           toLine   <- uart \o TxRing,
           fromLine <- RxRing \o arrived

\* Bytes pass the port in order, once each, and are dropped only by clear, by
\* closing or opening the port, or when the receive ring is full, wherever the interrupt falls in a call.
BytesInOrder == Pipes!PipesSpec
=============================================================================
