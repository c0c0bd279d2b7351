----------------------------- MODULE MCMsgQueue -----------------------------
(* A ring of nine bytes and messages of zero to five framed bytes, among   *)
(* them all three bytes that are escaped and one message that never fits.  *)
EXTENDS MsgQueue

MCByte == {65, 93, 94, 95, 125, 126, 127}
MCMsg == { <<>>, <<65>>, <<126>>, <<127, 65>>, <<65, 125, 65, 94>>,
           <<65, 65, 127, 65, 65, 65, 65, 65>> }
=============================================================================
