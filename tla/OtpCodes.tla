------------------------------ MODULE OtpCodes ------------------------------
(***************************************************************************)
(* How a code comes to be, twice: in the server (core/otp.cpp) and in the  *)
(* keychain (firmware/xAuth_ID/src/totp.cpp), and which codes the verifier *)
(* takes (verify_code in verifier/main.cpp).  Also what the keychain says  *)
(* of the time left to type it (display.cpp).                              *)
(*                                                                         *)
(* The widths are constants; in the code a byte has 256 values, a counter  *)
(* 8 bytes and a code 8 digits.  HMAC-SHA256 is the constant Mac.          *)
(***************************************************************************)
EXTENDS Integers, Sequences

CONSTANTS
    Base,       \* values of a byte
    Width,      \* bytes of a counter
    MacBytes,   \* bytes of an HMAC
    Offsets,    \* places where the truncation may start: 16
    Mac(_),     \* the HMAC of a message under the key of the one device
    Digits,     \* OTP_SIZE, OTP_DIGITS
    Step        \* OTP_STEP_SECONDS

Byte == 0 .. Base - 1
Message == [1 .. Width -> Byte]

ASSUME OtpAssumption ==
    /\ {Base, Width, MacBytes, Offsets, Digits, Step} \subseteq Nat \ {0}
    /\ (Base % 2) = 0
    /\ Offsets + 3 =< MacBytes
    /\ \A i \in 0 .. Width : Base^i \in Nat \ {0}
    /\ \A m \in Message : Mac(m) \in Seq(Byte) /\ Len(Mac(m)) = MacBytes

-----------------------------------------------------------------------------
(* The server.                                                             *)

CounterAt(time) == time \div Step

\* Big-endian.
CounterBytes(counter) == [i \in 1 .. Width |-> (counter \div Base^(Width - i)) % Base]

\* dynamic_truncate(): four bytes from where byte `last` says, less one bit.
Truncate(mac, last) ==
    LET at == mac[last] % Offsets
        value == (mac[at + 1] % (Base \div 2)) * Base^3
                 + mac[at + 2] * Base^2 + mac[at + 3] * Base + mac[at + 4]
    IN  value % 10^Digits

\* pad_and_convert(): leading zeros are part of the code.
Pad(n) == [i \in 1 .. Digits |-> (n \div 10^(Digits - i)) % 10]

ServerCode(counter) ==
    LET mac == Mac(CounterBytes(counter)) IN Pad(Truncate(mac, Len(mac)))

\* verify_code(): the counter before, the current and the next one, in 64 bits.
Word == Base^Width
CountersTwoBack(now) == {(now + offset) % Word : offset \in -2 .. 1}
                                    \* mutation: one more step of drift
Counters(now) == {(now + offset) % Word : offset \in -1 .. 1}

Accepted(code, time) == \E counter \in Counters(CounterAt(time)) : ServerCode(counter) = code

-----------------------------------------------------------------------------
(* The keychain.                                                           *)

\* totp() and format_code(): the same, with the HMAC's length taken for granted.
KeychainCodeSwapped(time) ==        \* mutation: little-endian
    LET b == CounterBytes(time \div Step)
        mac == Mac([i \in 1 .. Width |-> b[Width + 1 - i]])
    IN  Pad(Truncate(mac, MacBytes))

KeychainCode(time) == Pad(Truncate(Mac(CounterBytes(time \div Step)), MacBytes))

\* otp_seconds_left()
SecondsLeft(time) == Step - (time % Step)

\* draw_time_left(): one to four lines; at one, the keychain says to wait.
Ceiling(left) == (left * 4 + Step - 1) \div Step
Lines(left) == IF Ceiling(left) < 1 THEN 1 ELSE Ceiling(left)
SaysWait(time) == Lines(SecondsLeft(time)) = 1
=============================================================================
