------------------------------ MODULE MCRgbLed ------------------------------
(* The LED with two calling threads and three calls between them.          *)
EXTENDS RgbLed

CONSTANTS c1, c2

\* LED_PATTERN_DISABLED, LED_PATTERN_SOLID and LED_PATTERN_BLINK_SLOW.
MCPatterns == {0, 1, 5}
\* Colors::red and Colors::white.
MCColours == {<<255, 0, 0>>, <<255, 255, 255>>}
\* 0x0000FF, blue.
MCHexes == {255}
MCCallers == {c1, c2}
=============================================================================
