\* The handlers and losses of power come to their bounds.
CONSTANTS
    Blocks = 2
    MaxUploads = 3
    Projects = {"green_house", "relay", "relay2", "sticks", "cipher_box", "input_matrix",
                "keypad_backlight", "washer", "audio_multi", "rfids", "tressure", "ir",
                "dmx_light"}
    MaxOps = 3
    MaxCuts = 2
    Values = {3, 6}
    HeaderLen = 2
    DataLens = {0, 1, 2, 3, 4, 5, 6, 7}
    SeparatorLen = 4
    TailLen = 2
    BufferLen = 6
SPECIFICATION MCSpec
CHECK_DEADLOCK FALSE
INVARIANTS ShownIsStored ProvidedIsWhole WholeImagesAreUsed NothingIsLost
PROPERTIES ResetIsForGood SuccessIsInstalled
