--------------------------- MODULE MCGaugeDecoder ---------------------------
(* Model checking GaugeDecoder.                                            *)
EXTENDS GaugeDecoder

\* Readings whose bytes never imitate the magic pair, some holding half of it.
PlainReadings == {<<0, 0, 120, 7, 20>>, <<7, 0, 242, 5, 20>>, <<5, 7, 50, 0, 20>>}

\* Readings that do, by a low byte 7 before a software version 5: nine bytes
\* from there fail the check.
ImitatingReadings == {<<0, 0, 120, 7, 5>>, <<0, 0, 122, 7, 5>>, <<0, 0, 120, 8, 5>>}

\* Two whose frames one after the other hold nine such bytes that pass it: a
\* script that starts out of step reports them for a frame.
DeceivingReadings == {<<0, 0, 120, 7, 5>>, <<0, 0, 174, 7, 5>>}

MCSessions == {PlainReadings, ImitatingReadings, DeceivingReadings}

ASSUME MCPlain == Plain = {PlainReadings}
=============================================================================
